---- MODULE Spec2Model ----
(***************************************************************************)
(* A model of the webhooky dispatch engine: the event registry             *)
(* (registry.py), the event classes (events.py) and the event bus          *)
(* (bus.py).                                                               *)
(*                                                                         *)
(* Spec       routing: registry and handler-table operations, and whole    *)
(*            dispatch_raw / dispatch_event calls taken as one step.       *)
(* SpecSched  scheduling: the handler tasks of overlapping dispatch calls  *)
(*            interleaved step by step under the bus semaphore.            *)
(***************************************************************************)
EXTENDS Integers, Sequences, FiniteSets, TLC

VARIABLES
    event_classes,            \* EventRegistry._event_classes: class names in insertion order
    class_objects,            \* EventRegistry._event_classes: the class object under each name
    class_hierarchy,          \* EventRegistry._class_hierarchy: the base names of each class
    validation_stats,         \* EventRegistry._validation_stats
    pattern_handlers,         \* EventBus._pattern_handlers: class name -> list of handlers
    activity_handlers,        \* EventBus._activity_handlers: activity -> list of handlers
    any_handlers,             \* EventBus._any_handlers
    swallow_exceptions,       \* EventBus.swallow_exceptions
    max_concurrent_handlers,  \* EventBus.max_concurrent_handlers
    enable_metrics,           \* EventBus.enable_metrics
    metrics,                  \* EventBus._metrics: the counters of EventBusMetrics
    last,                     \* the most recent whole call and what it gave the caller
    kept,                     \* an earlier call, kept by the caller, and the bus as it was then
    calls,                    \* SpecSched: the dispatch calls in progress
    semaphore,                \* SpecSched: free permits of EventBus._semaphore
    plugin_manager            \* plugins.plugin_manager: _loaded_plugins and _handlers

vars == <<event_classes, class_objects, class_hierarchy, validation_stats,
                   pattern_handlers, activity_handlers, any_handlers,
          swallow_exceptions, max_concurrent_handlers, kept, enable_metrics, metrics,
          last, calls, semaphore, plugin_manager>>

(***************************************************************************)
(* Bounds of the model.                                                    *)
(***************************************************************************)
MaxHandlers == 2        \* handler registrations made on the bus
MaxCap == 2             \* largest max_concurrent_handlers tried
MaxEvents == 2          \* dispatch_raw calls counted by one bus
MaxAttempts == 2        \* match passes counted for one class by the registry

(***************************************************************************)
(* Event classes.  GenericWebhookEvent is the class of events.py; the two  *)
(* user classes stand for a class with the inherited get_activity          *)
(* (TestEvent) and one overriding matches and get_activity                 *)
(* (SimpleTestEvent of tests/test_bus.py).                                 *)
(***************************************************************************)
Generic == "GenericWebhookEvent"
UserSchemas == {"TestEvent", "SimpleTestEvent"}
Schemas == UserSchemas \cup {Generic}

None == "None"                          \* Python's None
ListAction == "['create']"              \* a payload whose "action" is a list
PayloadActions == {"", "create", ListAction}  \* the payload's "action" field
ActivityKeys == {"", "create"}          \* activities handlers get registered under

\* What a user class does with a payload.  TestEvent keeps the inherited
\* matches(), which is from_raw() with validation errors caught: it accepts,
\* rejects or throws another exception.  SimpleTestEvent has its own
\* matches(): it accepts or rejects, or accepts a payload from_raw() fails on.
MatchOutcomes(cls) ==
    IF cls = "TestEvent" THEN {"accept", "reject", "throws"}
    ELSE {"accept", "reject", "ctor_fails"}
Payloads ==
    {p \in [accepts : [UserSchemas -> {"accept", "reject", "throws", "ctor_fails"}],
            action : PayloadActions] :
        /\ \A c \in UserSchemas : p.accepts[c] \in MatchOutcomes(c)
        /\ p.action = ListAction => p.accepts["SimpleTestEvent"] = "accept"}

\* str.lower() of the class names
Lower(cls) ==
    CASE cls = "TestEvent" -> "testevent"
      [] cls = "SimpleTestEvent" -> "simpletestevent"
      [] OTHER -> "genericwebhookevent"

\* Python truthiness of an Optional[str]
Truthy(s) == s /= None /\ s /= ""

\* isinstance(s, str)
IsStr(s) == s /= None /\ s /= ListAction

\* An event instance: its class and the "action" of its payload.
Events ==
    {e \in [cls : Schemas, action : PayloadActions] :
        e.action = ListAction => e.cls = "SimpleTestEvent"}

\* WebhookEventBase.get_activity, and SimpleTestEvent's override
GetActivity(event) ==
    IF event.cls = "SimpleTestEvent"
    THEN event.action
    ELSE IF IsStr(event.action) /\ Truthy(event.action)
         THEN event.action ELSE Lower(event.cls)

\* cls.matches(raw_data, headers): GenericWebhookEvent.matches is `return True`
Matches(cls, p) ==
    IF cls = Generic THEN "accept" ELSE p.accepts[cls]

(***************************************************************************)
(* Handlers and what calling them does.                                    *)
(***************************************************************************)
Handlers == {"h_ok", "h_raise", "h_slow"}

\* "ok" returns in time, "raise" raises Exception("boom"), "slow" does not
\* finish within timeout_seconds: a function run by run_in_executor, or a
\* coroutine that ends when asyncio.wait_for cancels it.  "stuck" is a
\* coroutine that wait_for cannot end: it catches CancelledError and goes
\* on, or it never awaits.
Behaviour(h) ==
    CASE h = "h_ok" -> "ok"
      [] h = "h_raise" -> "raise"
      [] h = "h_slow" -> "slow"
      [] h = "h_relabel" -> "ok"
      [] OTHER -> "stuck"

\* what a handler does with the instance it is given: "h_relabel" assigns
\* to the "action" of its payload (event.payload["action"] = "delete"), the
\* others leave the instance alone
Relabels(h) == h = "h_relabel"

\* the handlers of the runs in which a handler may change its instance
RelabelHandlers == {"h_ok", "h_relabel"}

\* the handlers of the runs in which a coroutine may ignore its cancellation
LiveHandlers == Handlers \cup {"h_stuck"}

\* Texts are sequences of words.
Words(s) == {s[i] : i \in DOMAIN s}

\* The exception a failing handler ends with: the handler's own, or the
\* TimeoutError() that asyncio.wait_for raises, which carries no message.
HandlerException(h) ==
    IF Behaviour(h) = "raise"
    THEN [type |-> "Exception", msg |-> <<"boom">>]
    ELSE [type |-> "TimeoutError", msg |-> <<>>]

NoException == [type |-> "none", msg |-> <<>>]

\* what a call that is not a call of the registry has for a return value of
\* the registry
NoValue == <<"none">>

\* str(e)
Str(e) == e.msg

(***************************************************************************)
(* Trigger methods of the event classes, in the order inspect.getmembers   *)
(* lists them (sorted by name): the activities each is declared for and    *)
(* whether calling it raises.  TestEvent has an @on_activity("create")     *)
(* method that raises and an @on_create() method; SimpleTestEvent an       *)
(* @on_any() method and an @on_delete() method.                            *)
(***************************************************************************)
TriggerTable(cls) ==
    CASE cls = "TestEvent" ->
            << [name |-> "handle_error", acts |-> {"create"}, raises |-> TRUE],
               [name |-> "test_trigger", acts |-> {"create", "created"},
                raises |-> FALSE] >>
      [] cls = "SimpleTestEvent" ->
            << [name |-> "log_event", acts |-> {"any"}, raises |-> FALSE],
               [name |-> "on_removed",
                acts |-> {"delete", "deleted", "remove", "removed"},
                raises |-> FALSE] >>
      [] OTHER -> << >>

\* s with f applied to every element
Map(s, f(_)) == [i \in DOMAIN s |-> f(s[i])]

\* the concatenation of the sequences of ss
RECURSIVE Flatten(_)
Flatten(ss) == IF ss = << >> THEN << >> ELSE Head(ss) \o Flatten(Tail(ss))

\* ProcessTriggers calling every trigger method whatever it is declared for
ProcessTriggers_IgnoreActivity(event) ==
    LET fine(t) == ~t.raises
        qualified(t) == <<event.cls, t.name>>
    IN  [called |-> Map(TriggerTable(event.cls), qualified),
         triggered |-> Map(SelectSeq(TriggerTable(event.cls), fine), qualified)]

\* ProcessTriggers giving up at the first trigger that raises
ProcessTriggers_StopAtFailure(event) ==
    LET activity == GetActivity(event)
        hit(t) == activity \in t.acts \/ "any" \in t.acts
        matching == SelectSeq(TriggerTable(event.cls), hit)
        bad == {i \in DOMAIN matching : matching[i].raises}
        stop == IF bad = {} THEN Len(matching)
                ELSE CHOOSE i \in bad : \A j \in bad : i <= j
        called == SubSeq(matching, 1, stop)
        fine(t) == ~t.raises
        qualified(t) == <<event.cls, t.name>>
    IN  [called |-> Map(called, qualified),
         triggered |-> Map(SelectSeq(called, fine), qualified)]

\* WebhookEventBase.process_triggers: the triggers called, in order, and the
\* names it returns (those whose call did not raise)
ProcessTriggers(event) ==
    LET activity == GetActivity(event)
        hit(t) == activity \in t.acts \/ "any" \in t.acts
        called == SelectSeq(TriggerTable(event.cls), hit)
        fine(t) == ~t.raises
        qualified(t) == <<event.cls, t.name>>
    IN  [called |-> Map(called, qualified),
         triggered |-> Map(SelectSeq(called, fine), qualified)]

(***************************************************************************)
(* ProcessingResult (models.py) and EventBus._process_event.               *)
(***************************************************************************)
\* the instance as these handlers leave it: every handler is called with
\* the one instance, which process_triggers reads again afterwards
Handled(event, handlers) ==
    IF \E i \in DOMAIN handlers : Relabels(handlers[i])
    THEN [event EXCEPT !.action = "delete"]
    ELSE event

\* ProcessingResult(matched_patterns=[...]) with every other field defaulted
NewResult(matched) ==
    [success |-> FALSE, matched_patterns |-> matched, handler_results |-> << >>,
     triggered_methods |-> << >>, errors |-> << >>]

\* CollectHandlers without the truthiness test of the activity label
CollectHandlers_NoTruthTest(event) ==
    LET activity == GetActivity(event)
    IN  pattern_handlers[event.cls]
        \o (IF activity \in ActivityKeys THEN activity_handlers[activity] ELSE << >>)
        \o any_handlers

\* a sequence without the repetitions of its elements
RECURSIVE Dedup(_)
Dedup(seq) ==
    IF seq = << >> THEN << >>
    ELSE LET front == Dedup(SubSeq(seq, 1, Len(seq) - 1))
         IN  IF \E i \in DOMAIN front : front[i] = seq[Len(seq)]
             THEN front ELSE Append(front, seq[Len(seq)])

\* CollectHandlers calling a callback once however often it is registered
CollectHandlers_Dedup(event) ==
    LET activity == GetActivity(event)
    IN  Dedup(pattern_handlers[event.cls]
              \o (IF Truthy(activity) /\ activity \in ActivityKeys
                  THEN activity_handlers[activity] ELSE << >>)
              \o any_handlers)

\* _process_event, "Collect handlers"
CollectHandlers(event) ==
    LET activity == GetActivity(event)
    IN  pattern_handlers[event.cls]
        \o (IF Truthy(activity) /\ activity \in ActivityKeys
            THEN activity_handlers[activity] ELSE << >>)
        \o any_handlers

\* run_handler's return value: the dict of a handler that succeeded, or of
\* one whose exception was swallowed
HandlerResult(h) ==
    IF Behaviour(h) = "ok"
    THEN [handler |-> h, success |-> TRUE, error |-> << >>]
    ELSE [handler |-> h, success |-> FALSE, error |-> Str(HandlerException(h))]

\* ResultErrors keeping the first error only
ResultErrors_FirstOnly(handler_results) ==
    LET failed(r) == ~r.success
        text(r) == r.error
        all == Map(SelectSeq(handler_results, failed), text)
    IN  IF all = << >> THEN << >> ELSE <<Head(all)>>

\* _process_event, "Process results": the errors list built from the dicts
ResultErrors(handler_results) ==
    LET failed(r) == ~r.success
        text(r) == r.error
    IN  Map(SelectSeq(handler_results, failed), text)

\* the handlers of a list whose call ends in an exception
Failing(handlers) == {i \in DOMAIN handlers : Behaviour(handlers[i]) /= "ok"}

\* _process_event from "Process results" to its return statement, for the
\* dicts gather returned (every exception swallowed, or none raised)
FinishEvent(event, handler_results) ==
    LET errors == ResultErrors(handler_results)
        called == [i \in DOMAIN handler_results |-> handler_results[i].handler]
    IN  [success |-> errors = << >>,
         matched_patterns |-> <<event.cls>>,
         handler_results |-> handler_results,
         triggered_methods |-> ProcessTriggers(Handled(event, called)).triggered,
         errors |-> errors]

\* _process_event run to a return statement
ProcessEvent(event) ==
    IF CollectHandlers(event) = << >>
    THEN NewResult(<<event.cls>>)
    ELSE FinishEvent(event, Map(CollectHandlers(event), HandlerResult))

\* _process_event, "activity and activity in self._activity_handlers": the
\* lookup of a label that is not hashable raises TypeError
CollectRaises(event) ==
    Truthy(GetActivity(event)) /\ GetActivity(event) = ListAction

UnhashableError == [type |-> "TypeError", msg |-> <<"unhashable", "type:", "'list'">>]

\* whether _process_event leaves by an exception: of the lookup, or of one of
\* its handlers
ProcessEventRaises(event) ==
    \/ CollectRaises(event)
    \/ ~swallow_exceptions /\ Failing(CollectHandlers(event)) /= {}

\* the triggers _process_event calls when it runs to its return statement
TriggersCalled(event) ==
    IF CollectHandlers(event) = << >> THEN << >>
    ELSE ProcessTriggers(Handled(event, CollectHandlers(event))).called

\* the activity label _process_event gets from the instance when it collects
\* the handlers, and the one process_triggers gets from it after they ran
Labels(event) ==
    <<GetActivity(event), GetActivity(Handled(event, CollectHandlers(event)))>>

(***************************************************************************)
(* EventBus._match_patterns and dispatch_raw.                              *)
(***************************************************************************)
\* MatchPatterns taking a class whose matches() accepted as matched even
\* when from_raw() failed
MatchPatterns_KeepCtorFailure(p) ==
    LET accepted(cls) == Matches(cls, p) \in {"accept", "ctor_fails"}
        instance(cls) == [cls |-> cls, action |-> p.action]
    IN  Map(SelectSeq(event_classes, accepted), instance)

\* MatchPatterns stopping at the first class that accepts
MatchPatterns_FirstMatch(p) ==
    LET accepted(cls) == Matches(cls, p) = "accept"
        instance(cls) == [cls |-> cls, action |-> p.action]
        all == Map(SelectSeq(event_classes, accepted), instance)
    IN  IF all = << >> THEN << >> ELSE <<Head(all)>>

\* a sequence back to front
Reverse(seq) == [i \in DOMAIN seq |-> seq[Len(seq) + 1 - i]]

\* MatchPatterns going through the classes from the latest registered
MatchPatterns_LatestFirst(p) ==
    LET accepted(cls) == Matches(cls, p) = "accept"
        instance(cls) == [cls |-> cls, action |-> p.action]
    IN  Map(SelectSeq(Reverse(event_classes), accepted), instance)

\* MatchPatterns going on to the next class only after a class that did not
\* throw or fail in its constructor
MatchPatterns_StopAtThrow(p) ==
    LET sound(i) == \A j \in 1..(i - 1) :
                        Matches(event_classes[j], p) \in {"accept", "reject"}
        reached == SubSeq(event_classes, 1,
                          Cardinality({i \in DOMAIN event_classes : sound(i)}))
        accepted(cls) == Matches(cls, p) = "accept"
        instance(cls) == [cls |-> cls, action |-> p.action]
    IN  Map(SelectSeq(reached, accepted), instance)

\* MatchPatterns consulting the classes on the first call of a bus only
MatchPatterns_FirstCallOnly(p) ==
    LET accepted(cls) == Matches(cls, p) = "accept" /\ metrics.total_events = 0
        instance(cls) == [cls |-> cls, action |-> p.action]
    IN  Map(SelectSeq(event_classes, accepted), instance)

\* _match_patterns: an instance of every registered class that accepts
MatchPatterns(p) ==
    LET accepted(cls) == Matches(cls, p) = "accept"
        instance(cls) == [cls |-> cls, action |-> p.action]
    IN  Map(SelectSeq(event_classes, accepted), instance)

\* dispatch_raw: the instances it processes (the matches, or the fallback)
MatchedEvents(p) ==
    IF MatchPatterns(p) = << >>
    THEN << [cls |-> Generic, action |-> p.action] >>
    ELSE MatchPatterns(p)

ClassOf(event) == event.cls

\* Merge keeping the handler outcomes of the latest instance only
Merge_Overwrite(result, event_result) ==
    [result EXCEPT
        !.handler_results = event_result.handler_results,
        !.triggered_methods = @ \o event_result.triggered_methods,
        !.errors = @ \o event_result.errors]

\* dispatch_raw, the body of "for event in matched_events"
Merge(result, event_result) ==
    [result EXCEPT
        !.handler_results = @ \o event_result.handler_results,
        !.triggered_methods = @ \o event_result.triggered_methods,
        !.errors = @ \o event_result.errors]

\* dispatch_raw, "result.success = len(result.errors) == 0"
SetSuccess(result) == [result EXCEPT !.success = (result.errors = << >>)]

\* MergeAll leaving out the result of the last instance
RECURSIVE MergeAll_DropLast(_, _)
MergeAll_DropLast(result, rs) ==
    IF rs = << >> \/ Tail(rs) = << >> THEN result
    ELSE MergeAll_DropLast(Merge(result, Head(rs)), Tail(rs))

\* dispatch_raw, "for event in matched_events" over the per-instance results
RECURSIVE MergeAll(_, _)
MergeAll(result, rs) ==
    IF rs = << >> THEN result ELSE MergeAll(Merge(result, Head(rs)), Tail(rs))

\* dispatch_raw run to its return statement over these instances
Aggregate(events) ==
    SetSuccess(MergeAll(NewResult(Map(events, ClassOf)), Map(events, ProcessEvent)))

\* dispatch_raw's except block run for exception e raised by instance k:
\* the lists of the instances before k, and the "Dispatch failed" entry
FailedResult(events, k, e) ==
    LET sofar == MergeAll(NewResult(Map(events, ClassOf)),
                          Map(SubSeq(events, 1, k - 1), ProcessEvent))
    IN  [sofar EXCEPT !.errors = Append(@, <<"Dispatch", "failed:">> \o Str(e)),
                      !.success = FALSE]

\* the first instance whose _process_event raises, 0 when none does
FirstRaising(events) ==
    LET bad == {i \in DOMAIN events : ProcessEventRaises(events[i])}
    IN  IF bad = {} THEN 0 ELSE CHOOSE i \in bad : \A j \in bad : i <= j

(***************************************************************************)
(* EventBusMetrics (models.py) and the places dispatch_raw updates it.     *)
(***************************************************************************)
\* EventBusMetrics(): the counters, all zero
NewMetrics ==
    [total_events |-> 0, successful_events |-> 0, failed_events |-> 0,
     handler_executions |-> 0, handler_failures |-> 0, handler_timeouts |-> 0]

\* dispatch_raw on entry: "self._metrics.total_events += 1"
CountCall(m) ==
    IF enable_metrics THEN [m EXCEPT !.total_events = @ + 1] ELSE m

\* CountReturn assigning the counters instead of adding to them
CountReturn_Overwrite(m, events, result) ==
    IF enable_metrics
    THEN [m EXCEPT !.successful_events = Len(events),
                   !.failed_events = IF result.errors /= << >> THEN 1 ELSE 0]
    ELSE m

\* dispatch_raw, "Update metrics", after the loop over the instances
CountReturn(m, events, result) ==
    IF enable_metrics
    THEN [m EXCEPT !.successful_events = @ + Len(events),
                   !.failed_events = @ + (IF result.errors /= << >> THEN 1 ELSE 0)]
    ELSE m

\* dispatch_raw's except block: "self._metrics.failed_events += 1"
CountFailure(m) ==
    IF enable_metrics THEN [m EXCEPT !.failed_events = @ + 1] ELSE m

(***************************************************************************)
(* Spec: the registry and handler-table operations, and whole dispatch     *)
(* calls.                                                                  *)
(***************************************************************************)
NoPayload == [accepts |-> [c \in UserSchemas |-> "reject"], action |-> ""]

\* the elements of a sequence
Range(seq) == {seq[i] : i \in DOMAIN seq}

\* A class object: the class first defined under a name, or a class defined
\* later under the same name.
Original == "original"
ClassObjects == {Original, "redefinition"}

\* [base.__name__ for base in event_class.__bases__]: the event classes
\* derive from WebhookEventBase
BaseNames(cls) == <<"WebhookEventBase">>

\* the counters register_event_class sets up for a class
NewStats ==
    [match_attempts |-> 0, successful_matches |-> 0,
     validation_errors |-> 0, creation_count |-> 0]

\* table[key] = value
With(table, key, value) ==
    [k \in DOMAIN table \cup {key} |-> IF k = key THEN value ELSE table[k]]

\* del table[key]
Without(table, key) == [k \in DOMAIN table \ {key} |-> table[k]]

\* the tables of a registry that holds these classes and nothing else yet
FreshObjects(classes) == [c \in Range(classes) |-> Original]
FreshStats(classes) == [c \in Range(classes) |-> NewStats]
FreshHierarchy(classes) == [c \in Range(classes) |-> BaseNames(c)]
NoEvent == [cls |-> Generic, action |-> ""]

\* `last`: the call (op, payload or event), how it ended (status: "returned"
\* with result, or "raised" with exc; a call of the registry "returned" with
\* value), the instances whose _process_event
\* was entered (processed), the handlers and the triggers called, and the
\* counters as they were when the call was made (before); labels has, for
\* every instance whose triggers were processed, the activity label read
\* for its handlers and the one read for its triggers.
NoCall ==
    [op |-> "none", payload |-> NoPayload, event |-> NoEvent, status |-> "none",
     result |-> NewResult(<< >>), exc |-> NoException,
     processed |-> << >>, handlers |-> << >>, triggers |-> << >>,
     labels |-> << >>, before |-> NewMetrics, value |-> NoValue]

\* a call of the registry: value is its argument, with what it returned when
\* it returns something
RegistryCall(op, value) ==
    [NoCall EXCEPT !.op = op, !.status = "returned", !.value = value]

\* the tables a dispatch reads
Bus == <<event_classes, class_objects, pattern_handlers, activity_handlers,
         any_handlers, swallow_exceptions>>

\* the call is a dispatch call
Dispatch(call) == call.op \in {"dispatch_raw", "dispatch_event"}

\* `kept`: no call kept
NoKept == [call |-> NoCall, bus |-> << >>]

\* no dispatch call is in progress in SpecSched's variables
NoCalls == [c \in {} |-> 0]

\* PluginManager.__init__: no plugin loaded, no handler extracted
NewPluginManager == [loaded_plugins |-> << >>, handlers |-> << >>]

HandlerCount ==
    LET len(k) == Len(pattern_handlers[k])
        alen(k) == Len(activity_handlers[k])
        RECURSIVE Sum(_, _)
        Sum(S, f) == IF S = {} THEN 0
                     ELSE LET x == CHOOSE x \in S : TRUE
                          IN  (IF f = "p" THEN len(x) ELSE alen(x)) + Sum(S \ {x}, f)
    IN  Sum(Schemas, "p") + Sum(ActivityKeys, "a") + Len(any_handlers)

Init ==
    /\ event_classes = <<Generic>>
    /\ class_objects = FreshObjects(event_classes)
    /\ class_hierarchy = FreshHierarchy(event_classes)
    /\ validation_stats = FreshStats(event_classes)
    /\ pattern_handlers = [c \in Schemas |-> << >>]
    /\ activity_handlers = [a \in ActivityKeys |-> << >>]
    /\ any_handlers = << >>
    /\ swallow_exceptions \in BOOLEAN
    /\ max_concurrent_handlers = MaxCap
    /\ enable_metrics = FALSE
    /\ metrics = NewMetrics
    /\ last = NoCall
    /\ kept = NoKept
    /\ calls = NoCalls
    /\ semaphore = max_concurrent_handlers
    /\ plugin_manager = NewPluginManager

\* RegisterClassObject putting the class in place of the one registered
RegisterClassObject_Replace(cls, obj) ==
    LET other(c) == c /= cls IN
    /\ last = NoCall
    /\ event_classes' = Append(SelectSeq(event_classes, other), cls)
    /\ class_objects' = With(class_objects, cls, obj)
    /\ class_hierarchy' = With(class_hierarchy, cls, BaseNames(cls))
    /\ validation_stats' = With(validation_stats, cls, NewStats)
    /\ last' = RegistryCall("register_event_class", <<cls, obj>>)
    /\ UNCHANGED <<pattern_handlers, activity_handlers, any_handlers,
                   swallow_exceptions, max_concurrent_handlers, kept, enable_metrics, metrics,
                   calls, semaphore, plugin_manager>>

\* EventRegistry.register_event_class for the class object obj named cls
RegisterClassObject(cls, obj) ==
    /\ last = NoCall
    /\ IF cls \in Range(event_classes)
       THEN UNCHANGED <<event_classes, class_objects, class_hierarchy, validation_stats>>
       ELSE /\ event_classes' = Append(event_classes, cls)
            /\ class_objects' = With(class_objects, cls, obj)
            /\ class_hierarchy' = With(class_hierarchy, cls, BaseNames(cls))
            /\ validation_stats' = With(validation_stats, cls, NewStats)
    /\ last' = RegistryCall("register_event_class", <<cls, obj>>)
    /\ UNCHANGED <<pattern_handlers, activity_handlers, any_handlers,
                   swallow_exceptions, max_concurrent_handlers, kept, enable_metrics, metrics,
                   calls, semaphore, plugin_manager>>

\* EventRegistry.register_event_class (called by __init_subclass__)
RegisterEventClass(cls) == RegisterClassObject(cls, Original)

\* UnregisterEventClass returning True whatever the name
UnregisterEventClass_AlwaysTrue(cls) ==
    LET other(c) == c /= cls
    IN  /\ last = NoCall
        /\ event_classes' = SelectSeq(event_classes, other)
        /\ class_objects' = Without(class_objects, cls)
        /\ class_hierarchy' = Without(class_hierarchy, cls)
        /\ validation_stats' = Without(validation_stats, cls)
        /\ last' = RegistryCall("unregister_event_class", <<cls, TRUE>>)
        /\ UNCHANGED <<pattern_handlers, activity_handlers, any_handlers,
                       swallow_exceptions, max_concurrent_handlers, kept, enable_metrics, metrics,
                       calls, semaphore, plugin_manager>>

\* EventRegistry.unregister_event_class: the class leaves the three tables
\* and the caller gets True, or nothing changes and the caller gets False
UnregisterEventClass(cls) ==
    LET other(c) == c /= cls
    IN  /\ last = NoCall
        /\ IF cls \in DOMAIN class_objects
           THEN /\ event_classes' = SelectSeq(event_classes, other)
                /\ class_objects' = Without(class_objects, cls)
                /\ class_hierarchy' = Without(class_hierarchy, cls)
                /\ validation_stats' = Without(validation_stats, cls)
                /\ last' = RegistryCall("unregister_event_class", <<cls, TRUE>>)
           ELSE /\ UNCHANGED <<event_classes, class_objects, class_hierarchy, validation_stats>>
                /\ last' = RegistryCall("unregister_event_class", <<cls, FALSE>>)
        /\ UNCHANGED <<pattern_handlers, activity_handlers, any_handlers,
                       swallow_exceptions, max_concurrent_handlers, kept, enable_metrics, metrics,
                       calls, semaphore, plugin_manager>>

\* what find_matching_classes adds to the counters of a class for a payload:
\* an attempt, and a match when matches() returns True or a validation
\* error when it raises
Attempted(stats, cls, p) ==
    [stats EXCEPT
        !.match_attempts = @ + 1,
        !.successful_matches =
            @ + (IF Matches(cls, p) \in {"accept", "ctor_fails"} THEN 1 ELSE 0),
        !.validation_errors = @ + (IF Matches(cls, p) = "throws" THEN 1 ELSE 0)]

\* the classes find_matching_classes returns: those whose matches() is True
MatchingClasses(p) ==
    LET matching(cls) == Matches(cls, p) \in {"accept", "ctor_fails"}
    IN  SelectSeq(event_classes, matching)

\* no class has been through MaxAttempts match passes
WithinAttempts ==
    \A c \in DOMAIN validation_stats : validation_stats[c].match_attempts < MaxAttempts

\* EventRegistry.find_matching_classes
FindMatchingClasses(p) ==
    /\ last = NoCall
    /\ WithinAttempts
    /\ validation_stats' =
           [c \in DOMAIN validation_stats |-> Attempted(validation_stats[c], c, p)]
    /\ last' = RegistryCall("find_matching_classes", MatchingClasses(p))
    /\ UNCHANGED <<event_classes, class_objects, class_hierarchy,
                   pattern_handlers, activity_handlers, any_handlers,
                   swallow_exceptions, max_concurrent_handlers, kept, enable_metrics, metrics,
                   calls, semaphore, plugin_manager>>

\* Created counting an instance for every class that was tried
Created_EveryClass(stats, cls, p) ==
    [stats EXCEPT !.creation_count = @ + 1]

\* what create_events adds to the counters of a class after the match pass:
\* an instance created when from_raw() returns, a validation error when it
\* raises; nothing for a class that did not match
Created(stats, cls, p) ==
    CASE Matches(cls, p) = "accept" -> [stats EXCEPT !.creation_count = @ + 1]
      [] Matches(cls, p) = "ctor_fails" -> [stats EXCEPT !.validation_errors = @ + 1]
      [] OTHER -> stats

\* EventRegistry.create_events: the match pass, then from_raw() of every
\* class that matched; the caller gets the instances created
CreateEvents(p) ==
    LET created(cls) == Matches(cls, p) = "accept"
    IN  /\ last = NoCall
        /\ WithinAttempts
        /\ validation_stats' =
               [c \in DOMAIN validation_stats |->
                   Created(Attempted(validation_stats[c], c, p), c, p)]
        /\ last' = RegistryCall("create_events", SelectSeq(event_classes, created))
        /\ UNCHANGED <<event_classes, class_objects, class_hierarchy,
                       pattern_handlers, activity_handlers, any_handlers,
                       swallow_exceptions, max_concurrent_handlers, kept, enable_metrics,
                       metrics, calls, semaphore, plugin_manager>>

\* EventRegistry.reset_stats
ResetStats ==
    /\ last = NoCall
    /\ validation_stats' = [c \in DOMAIN validation_stats |-> NewStats]
    /\ last' = RegistryCall("reset_stats", NoValue)
    /\ UNCHANGED <<event_classes, class_objects, class_hierarchy,
                   pattern_handlers, activity_handlers, any_handlers,
                   swallow_exceptions, max_concurrent_handlers, kept, enable_metrics,
                   metrics, calls, semaphore, plugin_manager>>

\* EventBus.on_pattern / register_handler, for one class
OnPattern(cls, h) ==
    /\ last = NoCall
    /\ HandlerCount < MaxHandlers
    /\ pattern_handlers' = [pattern_handlers EXCEPT ![cls] = Append(@, h)]
    /\ UNCHANGED <<event_classes, class_objects, class_hierarchy, validation_stats,
                   activity_handlers, any_handlers,
                   swallow_exceptions, max_concurrent_handlers, kept, enable_metrics, metrics,
                   last, calls, semaphore, plugin_manager>>

\* EventBus.on_activity / register_activity_handler, for one activity
OnActivity(a, h) ==
    /\ last = NoCall
    /\ HandlerCount < MaxHandlers
    /\ activity_handlers' = [activity_handlers EXCEPT ![a] = Append(@, h)]
    /\ UNCHANGED <<event_classes, class_objects, class_hierarchy, validation_stats,
                   pattern_handlers, any_handlers,
                   swallow_exceptions, max_concurrent_handlers, kept, enable_metrics, metrics,
                   last, calls, semaphore, plugin_manager>>

\* EventBus.on_any
OnAny(h) ==
    /\ last = NoCall
    /\ HandlerCount < MaxHandlers
    /\ any_handlers' = Append(any_handlers, h)
    /\ UNCHANGED <<event_classes, class_objects, class_hierarchy, validation_stats,
                   pattern_handlers, activity_handlers,
                   swallow_exceptions, max_concurrent_handlers, kept, enable_metrics, metrics,
                   last, calls, semaphore, plugin_manager>>

\* activity_groups, a field the bus is constructed with: "create" and
\* "test" share an activity, "test" holds the empty string too, "empty" is
\* configured with no activity
ActivityGroups ==
    [create |-> {"create"}, test |-> {"create", ""}, empty |-> {}]

\* the names on_group is called with; "missing" is not a key of activity_groups
GroupNames == DOMAIN ActivityGroups \cup {"missing"}

\* on_group(*group_names): tuples of names, the empty one and ones that
\* repeat a name included
GroupArgs == {<< >>} \cup {<<g>> : g \in GroupNames} \cup (GroupNames \X GroupNames)

\* self.activity_groups.get(group, set())
GroupActivities(group) ==
    IF group \in DOMAIN ActivityGroups THEN ActivityGroups[group] ELSE {}

\* on_group, "activities.update(...)" for every name
GroupUnion(group_names) ==
    UNION {GroupActivities(group_names[i]) : i \in DOMAIN group_names}

\* a call of the bus that registers: value is its arguments
BusCall(op, value) ==
    [NoCall EXCEPT !.op = op, !.status = "returned", !.value = value]

\* OnGroup registering the handler once for every group named that holds
\* the activity
OnGroup_PerGroup(group_names, h) ==
    LET times(a) == Cardinality({i \in DOMAIN group_names :
                                    a \in GroupActivities(group_names[i])})
        RECURSIVE Repeat(_, _)
        Repeat(seq, n) == IF n = 0 THEN seq ELSE Repeat(Append(seq, h), n - 1)
    IN  /\ last = NoCall
        /\ HandlerCount + Cardinality(GroupUnion(group_names)) <= MaxHandlers
        /\ activity_handlers' =
                [a \in ActivityKeys |-> Repeat(activity_handlers[a], times(a))]
        /\ last' = BusCall("on_group", <<group_names, h>>)
        /\ UNCHANGED <<event_classes, class_objects, class_hierarchy, validation_stats,
                       pattern_handlers, any_handlers,
                       swallow_exceptions, max_concurrent_handlers, kept, enable_metrics,
                       metrics, calls, semaphore, plugin_manager>>

\* EventBus.on_group(*group_names) applied to a handler: on_activity over
\* the union of the groups' activities, or the identity decorator when the
\* union is empty
OnGroup(group_names, h) ==
    /\ last = NoCall
    /\ HandlerCount + Cardinality(GroupUnion(group_names)) <= MaxHandlers
    /\ activity_handlers' =
            [a \in ActivityKeys |->
                IF a \in GroupUnion(group_names)
                THEN Append(activity_handlers[a], h) ELSE activity_handlers[a]]
    /\ last' = BusCall("on_group", <<group_names, h>>)
    /\ UNCHANGED <<event_classes, class_objects, class_hierarchy, validation_stats,
                   pattern_handlers, any_handlers,
                   swallow_exceptions, max_concurrent_handlers, kept, enable_metrics,
                   metrics, calls, semaphore, plugin_manager>>

\* the handlers registered on a class or an activity return or raise; a
\* catch-all handler may also be one that times out
RoutedHandlers == {h \in Handlers : Behaviour(h) /= "slow"}

(***************************************************************************)
(* Plugins (plugins.py).  A plugin module is the list of its public        *)
(* callables in the order dir() gives them; a callable is its name and the *)
(* attributes the webhook_handler decorator may have set on it.            *)
(***************************************************************************)
\* a function no decorator was applied to: hasattr is false for the three
PlainFunction(name) ==
    [name |-> name, webhook_pattern |-> None, webhook_activity |-> None,
     webhook_handler |-> FALSE]

\* isinstance(x, type)
IsType(x) == x \in Schemas

\* the arguments of webhook_handler(pattern_or_activity=None, activity=None)
DecoratorArgs ==
    [pattern_or_activity : {None, "TestEvent", "create", ""},
     activity : {None, "create"}]

\* webhook_handler(...)(func)
WebhookHandler(args, func) ==
    LET first == args.pattern_or_activity IN
    IF Truthy(first) /\ IsType(first)
    THEN [func EXCEPT !.webhook_pattern = first]
    ELSE IF Truthy(first) /\ IsStr(first)
    THEN [func EXCEPT !.webhook_activity = first]
    ELSE IF Truthy(args.activity)
    THEN [func EXCEPT !.webhook_activity = args.activity]
    ELSE [func EXCEPT !.webhook_handler = TRUE]

\* the functions of plugin modules: decorated once, or twice
PluginFunctions ==
    LET once == {WebhookHandler(a, PlainFunction(h)) : a \in DecoratorArgs,
                                                       h \in RoutedHandlers}
    IN  once \cup {WebhookHandler(a, f) : a \in DecoratorArgs, f \in once}

\* plugin modules with one function or with two, in the order of dir()
PluginModules ==
    {<<f>> : f \in PluginFunctions}
        \cup {<<f, g>> : f \in {x \in PluginFunctions : x.name = "h_ok"},
                         g \in {x \in PluginFunctions : x.name = "h_raise"}}

PluginNames == {"my_plugin", "my_plugin_2"}

\* PluginManager._extract_handlers
ExtractHandlers(plugin_module) ==
    LET marked(attr) == attr.webhook_handler
    IN  SelectSeq(plugin_module, marked)

\* load_module_plugin(module_name, plugin_alias) with _initialize_plugin: a
\* plugin that is loaded already is left as it is
LoadModulePlugin(alias, plugin_module) ==
    /\ last = NoCall
    /\ plugin_manager' =
            IF alias \in DOMAIN plugin_manager.loaded_plugins
            THEN plugin_manager
            ELSE [loaded_plugins |->
                      With(plugin_manager.loaded_plugins, alias, plugin_module),
                  handlers |->
                      Append(plugin_manager.handlers,
                             [plugin |-> alias,
                              handlers |-> ExtractHandlers(plugin_module)])]
    /\ last' = BusCall("load_module_plugin", <<alias, TRUE>>)
    /\ UNCHANGED <<event_classes, class_objects, class_hierarchy, validation_stats,
                   pattern_handlers, activity_handlers, any_handlers,
                   swallow_exceptions, max_concurrent_handlers, kept, enable_metrics,
                   metrics, calls, semaphore>>

\* the handlers of every plugin, in the order register_with_bus takes them
AllPluginHandlers ==
    LET handlers(entry) == entry.handlers
    IN  Flatten(Map(plugin_manager.handlers, handlers))

\* register_with_bus, the body of its loop: the three tables of the bus
\* after the registration of one more handler
RegisterOne(tables, handler) ==
    IF handler.webhook_pattern /= None
    THEN [tables EXCEPT !.pattern[handler.webhook_pattern] = Append(@, handler.name)]
    ELSE IF handler.webhook_activity /= None
    THEN [tables EXCEPT !.activity[handler.webhook_activity] = Append(@, handler.name)]
    ELSE [tables EXCEPT !.any = Append(@, handler.name)]

\* register_with_bus, its loop over these handlers
RECURSIVE RegisterAll(_, _)
RegisterAll(tables, handlers) ==
    IF handlers = << >> THEN tables
    ELSE RegisterAll(RegisterOne(tables, Head(handlers)), Tail(handlers))

\* PluginManager.register_with_bus(bus)
RegisterWithBus ==
    LET tables == RegisterAll([pattern |-> pattern_handlers,
                               activity |-> activity_handlers,
                               any |-> any_handlers], AllPluginHandlers)
    IN  /\ last = NoCall
        /\ HandlerCount + Len(AllPluginHandlers) <= MaxHandlers
        /\ pattern_handlers' = tables.pattern
        /\ activity_handlers' = tables.activity
        /\ any_handlers' = tables.any
        /\ last' = BusCall("register_with_bus", NoValue)
        /\ UNCHANGED <<event_classes, class_objects, class_hierarchy, validation_stats,
                       swallow_exceptions, max_concurrent_handlers, kept, enable_metrics,
                       metrics, calls, semaphore, plugin_manager>>

\* the handlers collected for each of these instances, one after the other
HandlersOf(events) ==
    LET pairs(e) == LET tag(h) == <<e.cls, h>> IN Map(CollectHandlers(e), tag)
    IN  Flatten(Map(events, pairs))

TriggersOf(events) == Flatten(Map(events, TriggersCalled))

\* the two labels of each of these instances that has handlers
LabelsOf(events) ==
    LET ran(e) == CollectHandlers(e) /= << >>
    IN  Map(SelectSeq(events, ran), Labels)

\* How a dispatch over these instances ends.  With every instance processed
\* it returns the result.  Otherwise instance k is the first to raise:
\* instances 1..k were entered, the handlers and triggers of 1..k-1 were
\* called (and the handlers of k, when it is one of them that raised).  The
\* exception reaches the caller, except in a dispatch_raw that swallows,
\* which returns the result of its except block.
DispatchOutcomes(op, p, e, events, result) ==
    LET k == FirstRaising(events)
        ended(status, res, exc, ran) ==
            [op |-> op, payload |-> p, event |-> e, status |-> status,
             result |-> res, exc |-> exc,
             processed |-> Map(SubSeq(events, 1, k), ClassOf),
             handlers |-> HandlersOf(SubSeq(events, 1, ran)),
             triggers |-> TriggersOf(SubSeq(events, 1, k - 1)),
             labels |-> LabelsOf(SubSeq(events, 1, k - 1)),
             before |-> metrics, value |-> NoValue]
    IN
    IF k = 0
    THEN { [op |-> op, payload |-> p, event |-> e, status |-> "returned",
            result |-> result, exc |-> NoException,
            processed |-> Map(events, ClassOf),
            handlers |-> HandlersOf(events),
            triggers |-> TriggersOf(events),
            labels |-> LabelsOf(events),
            before |-> metrics, value |-> NoValue] }
    ELSE IF CollectRaises(events[k])
    THEN IF op = "dispatch_raw" /\ swallow_exceptions
         THEN { ended("returned", FailedResult(events, k, UnhashableError),
                      NoException, k - 1) }
         ELSE { ended("raised", NewResult(<< >>), UnhashableError, k - 1) }
    ELSE { ended("raised", NewResult(<< >>),
                 HandlerException(CollectHandlers(events[k])[i]), k)
           : i \in Failing(CollectHandlers(events[k])) }

\* DispatchRaw taking the handlers that failed out of the catch-all list
DispatchRaw_DropFailing(p) ==
    LET fine(h) == Behaviour(h) = "ok"
    IN  /\ last = NoCall
        /\ metrics.total_events < MaxEvents
        /\ last' \in DispatchOutcomes("dispatch_raw", p, NoEvent, MatchedEvents(p),
                                      Aggregate(MatchedEvents(p)))
        /\ metrics' = IF FirstRaising(MatchedEvents(p)) = 0
                      THEN CountReturn(CountCall(metrics), MatchedEvents(p), last'.result)
                      ELSE CountFailure(CountCall(metrics))
        /\ any_handlers' = SelectSeq(any_handlers, fine)
        /\ UNCHANGED <<event_classes, class_objects, class_hierarchy, validation_stats,
                       pattern_handlers, activity_handlers,
                       swallow_exceptions, max_concurrent_handlers, kept, enable_metrics,
                       calls, semaphore, plugin_manager>>

\* EventBus.dispatch_raw
DispatchRaw(p) ==
    /\ last = NoCall
    /\ metrics.total_events < MaxEvents
    /\ last' \in DispatchOutcomes("dispatch_raw", p, NoEvent, MatchedEvents(p),
                                  Aggregate(MatchedEvents(p)))
    /\ metrics' = IF FirstRaising(MatchedEvents(p)) = 0
                  THEN CountReturn(CountCall(metrics), MatchedEvents(p), last'.result)
                  ELSE CountFailure(CountCall(metrics))
    /\ UNCHANGED <<event_classes, class_objects, class_hierarchy, validation_stats,
                   pattern_handlers, activity_handlers, any_handlers,
                   swallow_exceptions, max_concurrent_handlers, kept, enable_metrics,
                   calls, semaphore, plugin_manager>>

\* EventBus.dispatch_event
DispatchEvent(e) ==
    /\ last = NoCall
    /\ last' \in DispatchOutcomes("dispatch_event", NoPayload, e, <<e>>, ProcessEvent(e))
    /\ UNCHANGED <<event_classes, class_objects, class_hierarchy, validation_stats,
                   pattern_handlers, activity_handlers, any_handlers,
                   swallow_exceptions, max_concurrent_handlers, kept, enable_metrics, metrics,
                   calls, semaphore, plugin_manager>>

\* the caller takes the result (or the exception) of the call that ended
TakeResult ==
    /\ last /= NoCall
    /\ last' = NoCall
    /\ UNCHANGED <<event_classes, class_objects, class_hierarchy, validation_stats,
                   pattern_handlers, activity_handlers, any_handlers,
                   swallow_exceptions, max_concurrent_handlers, kept, enable_metrics, metrics,
                   calls, semaphore, plugin_manager>>

\* the caller keeps the result of the call that ended, to compare a later
\* one with it
KeepResult ==
    /\ Dispatch(last)
    /\ kept = NoKept
    /\ kept' = [call |-> last, bus |-> Bus]
    /\ last' = NoCall
    /\ UNCHANGED <<event_classes, class_objects, class_hierarchy, validation_stats,
                   pattern_handlers, activity_handlers, any_handlers,
                   swallow_exceptions, max_concurrent_handlers, enable_metrics, metrics,
                   calls, semaphore, plugin_manager>>

Next ==
    \/ TakeResult
    \/ \E cls \in Schemas : RegisterEventClass(cls)
    \/ \E cls \in Schemas : UnregisterEventClass(cls)
    \/ \E cls \in Schemas, h \in RoutedHandlers : OnPattern(cls, h)
    \/ \E a \in ActivityKeys, h \in RoutedHandlers : OnActivity(a, h)
    \/ \E h \in Handlers : OnAny(h)
    \/ \E p \in Payloads : DispatchRaw(p)
    \/ \E e \in Events : DispatchEvent(e)

Spec == Init /\ [][Next]_vars

(***************************************************************************)
(* SpecSched: dispatch_raw calls that overlap on one bus, their handler    *)
(* tasks taken step by step.  A call runs without interruption from its    *)
(* entry to the gather of the first instance that has handlers, and from   *)
(* the end of a gather to the next one or to its return; in between, the   *)
(* tasks of every call in progress interleave.  The second call is made    *)
(* while the first awaits a gather.                                        *)
(***************************************************************************)
CallIds == {"c1", "c2"}

\* the payloads dispatched: the first call gets one where the generic class
\* matches alone or one where TestEvent matches too, the call that overlaps
\* it one where the generic class matches alone
SchedPayloads(c) ==
    {p \in Payloads : /\ p.accepts["SimpleTestEvent"] = "reject"
                      /\ p.accepts["TestEvent"] \in
                            (IF c = "c1" THEN {"accept", "reject"} ELSE {"reject"})
                      /\ p.action = "create"}

NoHandlerResult == [handler |-> "none", success |-> FALSE, error |-> << >>]

\* a run_handler coroutine handed to gather: st is "pending" (waiting for
\* the semaphore), "running" (holding a permit, the handler called),
\* "returned" (with the dict res) or "raised"; n counts the calls of the
\* handler.
NewTask(h) == [handler |-> h, st |-> "pending", n |-> 0, res |-> NoHandlerResult]

\* a call: pc is "idle", "gather" (awaiting the tasks of instance idx),
\* "returned" (result went to the caller) or "raised" (exc did); collected
\* lists, for every instance entered, the handlers collected for it.
IdleCall ==
    [pc |-> "idle", payload |-> NoPayload, events |-> << >>, idx |-> 0,
     tasks |-> << >>, result |-> NewResult(<< >>), exc |-> NoException,
     collected |-> << >>, triggers |-> << >>]

TaskResult(t) == t.res

\* dispatch_raw's loop from instance idx on, up to the next gather or the
\* return statement
RECURSIVE Advance(_)
Advance(call) ==
    IF call.idx > Len(call.events)
    THEN [call EXCEPT !.pc = "returned", !.result = SetSuccess(@)]
    ELSE LET event == call.events[call.idx]
             handlers == CollectHandlers(event)
             entered == [call EXCEPT !.collected =
                            Append(@, [cls |-> event.cls, handlers |-> handlers])]
         IN  IF handlers = << >>
             THEN Advance([entered EXCEPT
                              !.result = Merge(@, NewResult(<<event.cls>>)),
                              !.idx = @ + 1])
             ELSE [entered EXCEPT !.pc = "gather", !.tasks = Map(handlers, NewTask)]

InitSched ==
    /\ event_classes = <<Generic, "TestEvent">>
    /\ class_objects = FreshObjects(event_classes)
    /\ class_hierarchy = FreshHierarchy(event_classes)
    /\ validation_stats = FreshStats(event_classes)
    /\ pattern_handlers = [c \in Schemas |-> << >>]
    /\ activity_handlers = [a \in ActivityKeys |-> << >>]
    /\ any_handlers = << >>
    /\ swallow_exceptions \in BOOLEAN
    /\ max_concurrent_handlers \in {1, MaxCap}
    /\ enable_metrics = TRUE
    /\ metrics = NewMetrics
    /\ last = NoCall
    /\ kept = NoKept
    /\ calls = [c \in CallIds |-> IdleCall]
    /\ semaphore = max_concurrent_handlers
    /\ plugin_manager = NewPluginManager

BusUnchanged ==
    UNCHANGED <<event_classes, class_objects, class_hierarchy, validation_stats,
                   pattern_handlers, activity_handlers, any_handlers,
                swallow_exceptions, max_concurrent_handlers, kept, enable_metrics, last,
                plugin_manager>>

\* dispatch_raw is called: matching, then the loop up to the first gather
StartRaw(c, p) ==
    /\ calls[c].pc = "idle"
    /\ c = "c1" \/ calls["c1"].pc = "gather"
    /\ calls' = [calls EXCEPT ![c] =
            Advance([IdleCall EXCEPT
                        !.payload = p,
                        !.events = MatchedEvents(p),
                        !.idx = 1,
                        !.result = NewResult(Map(MatchedEvents(p), ClassOf))])]
    /\ metrics' = IF calls'[c].pc = "returned"
                  THEN CountReturn(CountCall(metrics), calls'[c].events, calls'[c].result)
                  ELSE CountCall(metrics)
    /\ UNCHANGED semaphore
    /\ BusUnchanged

\* Acquire without waiting for a free permit
Acquire_NoWait(c, i) ==
    /\ i \in DOMAIN calls[c].tasks
    /\ calls[c].tasks[i].st = "pending"
    /\ semaphore' = semaphore - 1
    /\ calls' = [calls EXCEPT ![c].tasks[i].st = "running", ![c].tasks[i].n = @ + 1]
    /\ UNCHANGED metrics
    /\ BusUnchanged

\* run_handler: "async with self._semaphore" gets a permit and the handler
\* is called
Acquire(c, i) ==
    /\ i \in DOMAIN calls[c].tasks
    /\ calls[c].tasks[i].st = "pending"
    /\ semaphore > 0
    /\ semaphore' = semaphore - 1
    /\ calls' = [calls EXCEPT ![c].tasks[i].st = "running", ![c].tasks[i].n = @ + 1]
    /\ UNCHANGED metrics
    /\ BusUnchanged

\* Resolved with a timeout also ending the siblings that still wait
Resolved_TimeoutCancelsSiblings(call, i) ==
    LET h == call.tasks[i].handler
        cancelled(j) == Behaviour(h) = "slow" /\ j /= i /\ call.tasks[j].st = "pending"
        tasks == [j \in DOMAIN call.tasks |->
                    IF j = i \/ cancelled(j)
                    THEN [call.tasks[j] EXCEPT
                            !.st = "returned",
                            !.res = [handler |-> call.tasks[j].handler,
                                     success |-> Behaviour(h) = "ok",
                                     error |-> << >>]]
                    ELSE call.tasks[j]]
    IN  [call EXCEPT !.tasks = tasks]

\* run_handler leaves "async with": the task ends with its dict, or with the
\* handler's exception when exceptions are not swallowed; gather keeps the
\* first exception for the awaiting call
Resolved(call, i) ==
    LET h == call.tasks[i].handler IN
    IF Behaviour(h) = "ok" \/ swallow_exceptions
    THEN [call EXCEPT !.tasks[i].st = "returned", !.tasks[i].res = HandlerResult(h)]
    ELSE [call EXCEPT !.tasks[i].st = "raised",
                      !.exc = IF call.pc = "gather" /\ @ = NoException
                              THEN HandlerException(h) ELSE @]

\* Resolve keeping the permit of a task that ends with an exception
Resolve_LeakOnException(c, i) ==
    /\ semaphore' = IF Resolved(calls[c], i).tasks[i].st = "raised"
                    THEN semaphore ELSE semaphore + 1
    /\ calls' = [calls EXCEPT ![c] = Resolved(calls[c], i)]
    /\ UNCHANGED metrics
    /\ BusUnchanged

\* the permit goes back and the task ends
Resolve(c, i) ==
    /\ semaphore' = semaphore + 1
    /\ calls' = [calls EXCEPT ![c] = Resolved(calls[c], i)]
    /\ UNCHANGED metrics
    /\ BusUnchanged

Running(c, i, behaviour) ==
    /\ i \in DOMAIN calls[c].tasks
    /\ calls[c].tasks[i].st = "running"
    /\ Behaviour(calls[c].tasks[i].handler) = behaviour

\* the handler returns within timeout_seconds
Finish(c, i) ==
    /\ Running(c, i, "ok")
    /\ Resolve(c, i)

\* the handler raises
Raise(c, i) ==
    /\ Running(c, i, "raise")
    /\ Resolve(c, i)

\* wait_for gives up on the handler after timeout_seconds
Timeout(c, i) ==
    /\ Running(c, i, "slow")
    /\ Resolve(c, i)

\* gather hands the first exception to the awaiting _process_event, which
\* leaves; dispatch_raw counts the failure and re-raises it to the caller
Propagate(c) ==
    /\ calls[c].pc = "gather"
    /\ calls[c].exc /= NoException
    /\ calls' = [calls EXCEPT ![c].pc = "raised"]
    /\ metrics' = CountFailure(metrics)
    /\ UNCHANGED semaphore
    /\ BusUnchanged

\* GatherDone going on as soon as the first task has ended
GatherDone_FirstCompleted(c) ==
    LET call == calls[c]
        event == call.events[call.idx]
    IN  /\ call.pc = "gather"
        /\ \E i \in DOMAIN call.tasks : call.tasks[i].st = "returned"
        /\ \A i \in DOMAIN call.tasks : call.tasks[i].st /= "running"
        /\ calls' = [calls EXCEPT ![c] =
                Advance([call EXCEPT
                    !.result = Merge(@, FinishEvent(event, Map(call.tasks, TaskResult))),
                    !.triggers = @ \o ProcessTriggers(
                        Handled(event, [i \in DOMAIN call.tasks |->
                                            call.tasks[i].handler])).called,
                    !.tasks = << >>,
                    !.idx = @ + 1])]
        /\ metrics' = IF calls'[c].pc = "returned"
                      THEN CountReturn(metrics, calls'[c].events, calls'[c].result)
                      ELSE metrics
        /\ UNCHANGED semaphore
        /\ BusUnchanged

\* gather returns the dicts of all the tasks: results, triggers, and the
\* loop goes on
GatherDone(c) ==
    LET call == calls[c]
        event == call.events[call.idx]
    IN  /\ call.pc = "gather"
        /\ \A i \in DOMAIN call.tasks : call.tasks[i].st = "returned"
        /\ calls' = [calls EXCEPT ![c] =
                Advance([call EXCEPT
                    !.result = Merge(@, FinishEvent(event, Map(call.tasks, TaskResult))),
                    !.triggers = @ \o ProcessTriggers(
                        Handled(event, [i \in DOMAIN call.tasks |->
                                            call.tasks[i].handler])).called,
                    !.tasks = << >>,
                    !.idx = @ + 1])]
        /\ metrics' = IF calls'[c].pc = "returned"
                      THEN CountReturn(metrics, calls'[c].events, calls'[c].result)
                      ELSE metrics
        /\ UNCHANGED semaphore
        /\ BusUnchanged

NextSched ==
    \/ \E h \in Handlers : OnAny(h)
    \/ \E c \in CallIds : \E p \in SchedPayloads(c) : StartRaw(c, p)
    \/ \E c \in CallIds, i \in 1..MaxHandlers : Acquire(c, i)
    \/ \E c \in CallIds, i \in 1..MaxHandlers : Finish(c, i)
    \/ \E c \in CallIds, i \in 1..MaxHandlers : Raise(c, i)
    \/ \E c \in CallIds, i \in 1..MaxHandlers : Timeout(c, i)
    \/ \E c \in CallIds : Propagate(c)
    \/ \E c \in CallIds : GatherDone(c)

SpecSched == InitSched /\ [][NextSched]_vars

(***************************************************************************)
(* SpecLive: the overlapping calls of SpecSched under the scheduling of    *)
(* the event loop, with handlers that asyncio.wait_for cannot end among    *)
(* the handlers registered.  The loop runs every task that is ready: a     *)
(* step that stays possible is taken.  wait_for(fut, timeout) cancels the  *)
(* coroutine at the timeout and then awaits it, so there is no step for a  *)
(* running task whose coroutine does not end.                              *)
(***************************************************************************)
InitLive == InitSched

\* what the event loop does on its own: every step but the calls made from
\* outside (registrations and dispatch_raw)
LoopStep ==
    \/ \E c \in CallIds, i \in 1..MaxHandlers : Acquire(c, i)
    \/ \E c \in CallIds, i \in 1..MaxHandlers : Finish(c, i)
    \/ \E c \in CallIds, i \in 1..MaxHandlers : Raise(c, i)
    \/ \E c \in CallIds, i \in 1..MaxHandlers : Timeout(c, i)
    \/ \E c \in CallIds : Propagate(c)
    \/ \E c \in CallIds : GatherDone(c)

NextLive ==
    \/ \E h \in LiveHandlers : OnAny(h)
    \/ \E c \in CallIds : \E p \in SchedPayloads(c) : StartRaw(c, p)
    \/ \E c \in CallIds, i \in 1..MaxHandlers : Acquire(c, i)
    \/ \E c \in CallIds, i \in 1..MaxHandlers : Finish(c, i)
    \/ \E c \in CallIds, i \in 1..MaxHandlers : Raise(c, i)
    \/ \E c \in CallIds, i \in 1..MaxHandlers : Timeout(c, i)
    \/ \E c \in CallIds : Propagate(c)
    \/ \E c \in CallIds : GatherDone(c)

SpecLive == InitLive /\ [][NextLive]_vars /\ WF_vars(LoopStep)

(***************************************************************************)
(* SpecMetrics: whole dispatch calls, one after the other, on a bus that   *)
(* has GenericWebhookEvent and TestEvent registered and catch-all          *)
(* handlers, with the counters of EventBusMetrics.                         *)
(***************************************************************************)
\* the payloads dispatched: TestEvent accepts or not, with or without action
MetricPayloads ==
    {p \in Payloads : /\ p.accepts["SimpleTestEvent"] = "reject"
                      /\ p.accepts["TestEvent"] \in {"accept", "reject"}}

\* the instances handed to dispatch_event
MetricEvents == {e \in Events : e.cls \in {Generic, "TestEvent"}}

InitMetrics ==
    /\ event_classes = <<Generic, "TestEvent">>
    /\ class_objects = FreshObjects(event_classes)
    /\ class_hierarchy = FreshHierarchy(event_classes)
    /\ validation_stats = FreshStats(event_classes)
    /\ pattern_handlers = [c \in Schemas |-> << >>]
    /\ activity_handlers = [a \in ActivityKeys |-> << >>]
    /\ any_handlers = << >>
    /\ swallow_exceptions \in BOOLEAN
    /\ max_concurrent_handlers = MaxCap
    /\ enable_metrics \in BOOLEAN
    /\ metrics = NewMetrics
    /\ last = NoCall
    /\ kept = NoKept
    /\ calls = NoCalls
    /\ semaphore = max_concurrent_handlers
    /\ plugin_manager = NewPluginManager

NextMetrics ==
    \/ TakeResult
    \/ \E h \in Handlers : OnAny(h)
    \/ \E p \in MetricPayloads : DispatchRaw(p)
    \/ \E e \in MetricEvents : DispatchEvent(e)

SpecMetrics == InitMetrics /\ [][NextMetrics]_vars

(***************************************************************************)
(* SpecRepeat: dispatch_raw calls one after the other, the result of the   *)
(* first kept by the caller, with registrations in between or not.         *)
(***************************************************************************)
InitRepeat ==
    /\ event_classes = <<Generic, "TestEvent">>
    /\ class_objects = FreshObjects(event_classes)
    /\ class_hierarchy = FreshHierarchy(event_classes)
    /\ validation_stats = FreshStats(event_classes)
    /\ pattern_handlers = [c \in Schemas |-> << >>]
    /\ activity_handlers = [a \in ActivityKeys |-> << >>]
    /\ any_handlers = << >>
    /\ swallow_exceptions \in BOOLEAN
    /\ max_concurrent_handlers = MaxCap
    /\ enable_metrics = TRUE
    /\ metrics = NewMetrics
    /\ last = NoCall
    /\ kept = NoKept
    /\ calls = NoCalls
    /\ semaphore = max_concurrent_handlers
    /\ plugin_manager = NewPluginManager

NextRepeat ==
    \/ TakeResult
    \/ KeepResult
    \/ RegisterEventClass("TestEvent")
    \/ UnregisterEventClass("TestEvent")
    \/ \E h \in Handlers : OnAny(h)
    \/ \E p \in MetricPayloads : DispatchRaw(p)

SpecRepeat == InitRepeat /\ [][NextRepeat]_vars

(***************************************************************************)
(* SpecRegistry: the operations of the event registry on its own.          *)
(***************************************************************************)
\* the payloads the registry is asked about
RegistryPayloads ==
    {p \in Payloads :
        /\ p.action = "create"
        /\ <<p.accepts["TestEvent"], p.accepts["SimpleTestEvent"]>>
               \in {<<"accept", "accept">>, <<"reject", "ctor_fails">>, <<"throws", "reject">>}}

\* the payloads dispatched on a bus without handlers to see which classes
\* the match pass of dispatch_raw goes through: every user class accepts
AcceptedPayloads == {p \in RegistryPayloads : \A c \in UserSchemas : p.accepts[c] = "accept"}

InitRegistry == Init

NextRegistry ==
    \/ TakeResult
    \/ \E p \in AcceptedPayloads : DispatchRaw(p)
    \/ \E cls \in Schemas, obj \in ClassObjects : RegisterClassObject(cls, obj)
    \/ \E cls \in Schemas : UnregisterEventClass(cls)
    \/ \E p \in RegistryPayloads : FindMatchingClasses(p)
    \/ \E p \in RegistryPayloads : CreateEvents(p)
    \/ ResetStats

SpecRegistry == InitRegistry /\ [][NextRegistry]_vars

(***************************************************************************)
(* SpecRelabel: whole dispatch calls on a bus whose handlers may assign to *)
(* the payload of the instance they are given.                             *)
(***************************************************************************)
InitRelabel == Init

NextRelabel ==
    \/ TakeResult
    \/ \E cls \in Schemas : RegisterEventClass(cls)
    \/ \E a \in ActivityKeys, h \in RelabelHandlers : OnActivity(a, h)
    \/ \E h \in RelabelHandlers : OnAny(h)
    \/ \E p \in Payloads : DispatchRaw(p)
    \/ \E e \in Events : DispatchEvent(e)

SpecRelabel == InitRelabel /\ [][NextRelabel]_vars

(***************************************************************************)
(* SpecGroup: a bus constructed with activity_groups, whose handlers are   *)
(* all registered with on_group, and whole dispatch calls.                 *)
(***************************************************************************)
InitGroup == Init

NextGroup ==
    \/ TakeResult
    \/ \E cls \in Schemas : RegisterEventClass(cls)
    \/ \E group_names \in GroupArgs, h \in RoutedHandlers : OnGroup(group_names, h)
    \/ \E e \in Events : DispatchEvent(e)

SpecGroup == InitGroup /\ [][NextGroup]_vars

(***************************************************************************)
(* SpecPlugins: plugin modules are loaded, their handlers registered with  *)
(* the bus, and instances dispatched.                                      *)
(***************************************************************************)
InitPlugins == Init

NextPlugins ==
    \/ TakeResult
    \/ \E alias \in PluginNames, plugin_module \in PluginModules :
           LoadModulePlugin(alias, plugin_module)
    \/ RegisterWithBus
    \/ \E e \in Events : DispatchEvent(e)

SpecPlugins == InitPlugins /\ [][NextPlugins]_vars


(***************************************************************************)
(* Claims about whole dispatch calls (checked under Spec).                 *)
(***************************************************************************)
Returned(op) == last.op = op /\ last.status = "returned"

\* the last call was a dispatch call
Dispatched == Dispatch(last)

HandlerName(r) == r.handler

\* the result carries the entry of dispatch_raw's except block: the
\* processing of an instance failed outside its handlers
DispatchFailed ==
    \E i \in DOMAIN last.result.errors :
        /\ last.result.errors[i] /= << >>
        /\ Head(last.result.errors[i]) = "Dispatch"

\* the call returned with every instance processed to the end
Completed(op) == Returned(op) /\ ~DispatchFailed

\* the user classes that are registered and accept the payload
Accepting(p) ==
    {c \in UserSchemas :
        /\ \E i \in DOMAIN event_classes : event_classes[i] = c
        /\ p.accepts[c] = "accept"}

\* C1: every ProcessingResult a dispatch call returns has success = TRUE
\* exactly when its errors list is empty.
C1_SuccessIffNoErrors ==
    (Dispatched /\ last.status = "returned") =>
        (last.result.success <=> last.result.errors = << >>)

\* the entries registered under an activity label
RegisteredUnder(activity) ==
    IF activity \in ActivityKeys THEN activity_handlers[activity] ELSE << >>

\* C7 as claimed: the handlers run for an instance of class S with activity
\* a are the entries under pattern S, the entries under activity a and the
\* catch-all entries, for every label a.
C7_HandlerSetAnyLabel ==
    Returned("dispatch_event") =>
        Map(last.result.handler_results, HandlerName)
            = pattern_handlers[last.event.cls]
              \o RegisteredUnder(GetActivity(last.event))
              \o any_handlers

\* C7 amended: the same for an instance whose activity label is a non-empty
\* string; an instance whose label is empty runs the entries under its
\* pattern and the catch-all entries only.
C7_HandlerSet ==
    Returned("dispatch_event") =>
        Map(last.result.handler_results, HandlerName)
            = pattern_handlers[last.event.cls]
              \o (IF GetActivity(last.event) = "" THEN << >>
                  ELSE RegisteredUnder(GetActivity(last.event)))
              \o any_handlers

\* C7 witness: an instance ran the handler of its activity while another
\* class had a pattern handler, which did not run.
C7_Witness ==
    /\ Returned("dispatch_event")
    /\ GetActivity(last.event) = "create"
    /\ activity_handlers["create"] /= << >>
    /\ \E c \in Schemas \ {last.event.cls} : pattern_handlers[c] /= << >>
    /\ Len(last.result.handler_results) = 1

\* C8: a payload accepted by exactly one user class S gives
\* matched_patterns = [S].
C8_SingleMatch ==
    Returned("dispatch_raw") =>
        \A c \in UserSchemas :
            Accepting(last.payload) = {c} => last.result.matched_patterns = <<c>>

\* C9: when no registered user class accepts the payload, dispatch_raw
\* processes one generic instance: matched_patterns names the generic class
\* alone, and with no failed handler the result is successful with no errors.
C9_GenericFallback ==
    (Returned("dispatch_raw") /\ Accepting(last.payload) = {}) =>
        /\ last.result.matched_patterns = <<Generic>>
        /\ last.processed = <<Generic>>
        /\ (\A i \in DOMAIN last.result.handler_results :
                last.result.handler_results[i].success)
            => (last.result.success /\ last.result.errors = << >>)

\* C9 witness: a registered user class turned the payload down, the generic
\* instance ran a handler, and the call succeeded.
C9_Witness ==
    /\ Returned("dispatch_raw")
    /\ Accepting(last.payload) = {}
    /\ \E i \in DOMAIN event_classes : event_classes[i] \in UserSchemas
    /\ last.result.handler_results /= << >>
    /\ last.result.success

\* C10: the generic class is never matched together with another class and
\* its instance is never processed before another matched instance.
C10_GenericOnlyAlone ==
    Returned("dispatch_raw") =>
        \A i \in DOMAIN last.result.matched_patterns :
            last.result.matched_patterns[i] = Generic
                => (Len(last.result.matched_patterns) = 1 /\ last.processed = <<Generic>>)

\* how often x occurs in a sequence
Occurrences(seq, x) == Cardinality({i \in DOMAIN seq : seq[i] = x})

\* the handlers the last call ran for its instance of class c, in order
RunFor(c) ==
    LET forC(pair) == pair[1] = c
        handler(pair) == pair[2]
    IN  Map(SelectSeq(last.handlers, forC), handler)

\* the registrations an instance of class c of the last payload is eligible
\* for: those on c, those on its (non-empty) activity label, the catch-all
Eligible(c) ==
    LET activity == GetActivity([cls |-> c, action |-> last.payload.action])
    IN  pattern_handlers[c]
        \o (IF activity = "" THEN << >> ELSE RegisteredUnder(activity))
        \o any_handlers

\* the last call was a dispatch_raw of a payload both user classes accept
BothAccept == last.op = "dispatch_raw" /\ Accepting(last.payload) = UserSchemas

\* C11 as claimed: whenever a payload accepted by two classes S1 and S2 is
\* dispatched, every registration on S1, on S2 or as catch-all is run once
\* for each instance it is eligible for, and a result names both classes.
C11_TwoSchemasAlways ==
    BothAccept =>
        /\ \A c \in UserSchemas : RunFor(c) = Eligible(c)
        /\ last.status = "returned" => UserSchemas \subseteq Range(last.result.matched_patterns)

\* C11 amended: the same for a dispatch that processes every instance to
\* the end (exceptions swallowed, or no handler failing, and no failure
\* outside the handlers): matched_patterns names S1 and S2 once each, every
\* matched instance runs the registrations it is eligible for once each, and
\* handler_results has one outcome per run.
C11_TwoSchemas ==
    (BothAccept /\ Completed("dispatch_raw")) =>
        /\ \A c \in UserSchemas : Occurrences(last.result.matched_patterns, c) = 1
        /\ \A c \in Range(last.result.matched_patterns) : RunFor(c) = Eligible(c)
        /\ Map(last.result.handler_results, HandlerName)
               = Flatten(Map(last.result.matched_patterns, Eligible))

\* C11 witness: both classes matched with a handler on TestEvent and a
\* catch-all handler: TestEvent's instance ran both, the others the catch-all.
C11_Witness ==
    /\ BothAccept /\ Completed("dispatch_raw")
    /\ Len(pattern_handlers["TestEvent"]) = 1
    /\ Len(any_handlers) = 1
    /\ Len(RunFor("TestEvent")) = 2
    /\ Len(RunFor("SimpleTestEvent")) = 1

\* the bus has catch-all handlers that do not fail, and no other handler
OnlyCatchAll ==
    /\ \A c \in Schemas : pattern_handlers[c] = << >>
    /\ \A a \in ActivityKeys : activity_handlers[a] = << >>
    /\ \A i \in DOMAIN any_handlers : Behaviour(any_handlers[i]) = "ok"

AllSucceeded(handler_results) ==
    \A i \in DOMAIN handler_results : handler_results[i].success

LastInstances ==
    IF last.op = "dispatch_event" THEN <<last.event>>
    ELSE [i \in DOMAIN last.processed |->
            [cls |-> last.processed[i], action |-> last.payload.action]]

\* the trigger methods of an instance's class declared for its activity
\* label (or for "any"), in the order of the class
MatchingTriggers(event) ==
    LET declared(t) == GetActivity(event) \in t.acts \/ "any" \in t.acts
    IN  SelectSeq(TriggerTable(event.cls), declared)

QualifiedName(event, t) == <<event.cls, t.name>>

\* the names of those that do not raise, as triggered_methods lists them
SuccessfulTriggers(event) ==
    LET fine(t) == ~t.raises
        name(t) == QualifiedName(event, t)
    IN  Map(SelectSeq(MatchingTriggers(event), fine), name)

\* C13: for every dispatched instance the matching trigger methods are
\* invoked whatever its handler set, also when it is empty, and the names of
\* those that succeeded are in triggered_methods.
C13_TriggersIndependent ==
    last.status = "returned" =>
        last.result.triggered_methods = Flatten(Map(LastInstances, SuccessfulTriggers))

\* the triggers the last call invoked that raised
FailedTriggers ==
    {k \in DOMAIN last.triggers :
        \E e \in Range(LastInstances) : \E i \in DOMAIN TriggerTable(e.cls) :
            /\ last.triggers[k] = QualifiedName(e, TriggerTable(e.cls)[i])
            /\ TriggerTable(e.cls)[i].raises}

\* C14: a trigger method that raised during a dispatch is recorded in the
\* result: errors has an entry for it besides those of the failed handlers,
\* success is false, and its name is not in triggered_methods.
C14_TriggerFailureRecorded ==
    (last.status = "returned" /\ FailedTriggers /= {}) =>
        /\ Len(last.result.errors)
               >= Len(ResultErrors(last.result.handler_results)) + Cardinality(FailedTriggers)
        /\ ~last.result.success
        /\ \A k \in FailedTriggers :
               last.triggers[k] \notin Range(last.result.triggered_methods)

\* the instances of the last call that had handlers: process_triggers was
\* called for them
WithHandlers ==
    LET ran(e) == RunFor(e.cls) /= << >> IN SelectSeq(LastInstances, ran)

C16_AggregationAlways ==
    Returned("dispatch_raw") =>
        LET each == Map(LastInstances, ProcessEvent) IN
        /\ last.result.matched_patterns = Map(LastInstances, ClassOf)
        /\ last.result.handler_results
               = Flatten(Map(each, LAMBDA r : r.handler_results))
        /\ last.result.triggered_methods
               = Flatten(Map(each, LAMBDA r : r.triggered_methods))
        /\ last.result.errors = Flatten(Map(each, LAMBDA r : r.errors))

\* C16 amended: so it is when every instance is processed to the end.  When
\* the processing of instance j fails outside its handlers and the bus
\* swallows, matched_patterns still has the k names, the three lists are the
\* concatenation over the instances before j, and errors has the "Dispatch
\* failed" entry after them.
C16_Aggregation ==
    Returned("dispatch_raw") =>
        LET done == IF DispatchFailed
                    THEN SubSeq(LastInstances, 1, Len(LastInstances) - 1)
                    ELSE LastInstances
            each == Map(done, ProcessEvent)
            errors == Flatten(Map(each, LAMBDA r : r.errors))
        IN
        /\ last.result.matched_patterns = Map(MatchedEvents(last.payload), ClassOf)
        /\ ~DispatchFailed => last.result.matched_patterns = Map(LastInstances, ClassOf)
        /\ last.result.handler_results
               = Flatten(Map(each, LAMBDA r : r.handler_results))
        /\ last.result.triggered_methods
               = Flatten(Map(each, LAMBDA r : r.triggered_methods))
        /\ IF DispatchFailed
           THEN /\ Len(last.result.errors) = Len(errors) + 1
                /\ SubSeq(last.result.errors, 1, Len(errors)) = errors
           ELSE last.result.errors = errors

\* C16 witness: two instances, each with a failed handler, the second with
\* a trigger.
C16_Witness ==
    /\ Completed("dispatch_raw")
    /\ Len(last.result.matched_patterns) = 2
    /\ Len(last.result.handler_results) >= 2
    /\ Len(last.result.errors) = 2
    /\ last.result.triggered_methods /= << >>
    /\ ProcessEvent(LastInstances[1]).triggered_methods = << >>

\* C23: with swallow_exceptions = true neither dispatch_raw nor
\* dispatch_event raises; the caller receives a ProcessingResult, which for
\* a failure outside the handlers has success = false and errors not empty.
C23_NeverRaises ==
    (swallow_exceptions /\ Dispatched) =>
        /\ last.status = "returned"
        /\ (\E i \in DOMAIN LastInstances : CollectRaises(LastInstances[i]))
              => (~last.result.success /\ last.result.errors /= << >>)

\* the registered classes that accept the last payload, in the order of the
\* registry (a dict: a class registered anew is last, whatever was
\* registered and unregistered before), or the fallback class
AcceptingInOrder ==
    LET accepted(cls) == Matches(cls, last.payload) = "accept"
        found == SelectSeq(event_classes, accepted)
    IN  IF found = << >> THEN <<Generic>> ELSE found

\* C24: matched_patterns lists the matching classes in registration order,
\* and their instances are processed in that order (all of them when the
\* call completes, the first ones when it fails at an instance).
C24_RegistrationOrder ==
    (last.op = "dispatch_raw" /\ last.status /= "none") =>
        /\ Len(last.processed) <= Len(AcceptingInOrder)
        /\ last.processed = SubSeq(AcceptingInOrder, 1, Len(last.processed))
        /\ Returned("dispatch_raw") => last.result.matched_patterns = AcceptingInOrder
        /\ Completed("dispatch_raw") => last.processed = AcceptingInOrder

\* C24 witness: GenericWebhookEvent was unregistered and registered again
\* after the two user classes, TestEvent before SimpleTestEvent; all three
\* matched and were processed in that order.
C24_Witness ==
    /\ Completed("dispatch_raw")
    /\ event_classes = <<"TestEvent", "SimpleTestEvent", Generic>>
    /\ last.result.matched_patterns = event_classes
    /\ last.processed = event_classes

\* the registered classes whose matches() throws on the last payload, or
\* accepts it with from_raw() failing afterwards
Unsound ==
    {c \in Range(event_classes) : Matches(c, last.payload) \in {"throws", "ctor_fails"}}

\* nothing fails in the processing of the instances of the last payload
NothingElseFails ==
    \A i \in DOMAIN AcceptingInOrder :
        LET event == [cls |-> AcceptingInOrder[i], action |-> last.payload.action]
        IN  ~CollectRaises(event) /\ Failing(CollectHandlers(event)) = {}

\* C25: a class whose predicate throws, or whose constructor fails after the
\* predicate accepted, is a non-match: it is not in matched_patterns, the
\* other registered classes are still evaluated (those that accept are
\* matched), errors has no entry for it and the dispatch does not fail
\* because of it.
C25_ThrowIsNonMatch ==
    (last.op = "dispatch_raw" /\ last.status /= "none" /\ Unsound /= {}) =>
        /\ Returned("dispatch_raw") =>
              /\ Unsound \cap Range(last.result.matched_patterns) = {}
              /\ \A c \in Range(event_classes) :
                     Matches(c, last.payload) = "accept"
                         => c \in Range(last.result.matched_patterns)
        /\ Completed("dispatch_raw") =>
              last.result.errors = ResultErrors(last.result.handler_results)
        /\ NothingElseFails =>
              /\ Returned("dispatch_raw")
              /\ last.result.success
              /\ last.result.errors = << >>

\* C25 witness: TestEvent's predicate threw and SimpleTestEvent's
\* constructor failed; GenericWebhookEvent, registered after both, was still
\* evaluated and matched, a handler ran for it, and the dispatch succeeded.
C25_Witness ==
    /\ Returned("dispatch_raw")
    /\ event_classes = <<"TestEvent", "SimpleTestEvent", Generic>>
    /\ Matches("TestEvent", last.payload) = "throws"
    /\ Matches("SimpleTestEvent", last.payload) = "ctor_fails"
    /\ last.result.matched_patterns = <<Generic>>
    /\ last.result.handler_results /= << >>
    /\ last.result.success

\* how often callback h is registered under the keys an instance is
\* eligible for: its class, its activity label, the catch-all
Registrations(event, h) ==
    LET activity == GetActivity(event)
    IN  Occurrences(pattern_handlers[event.cls], h)
        + (IF Truthy(activity) /\ activity \in ActivityKeys
           THEN Occurrences(activity_handlers[activity], h) ELSE 0)
        + Occurrences(any_handlers, h)

\* C27: registrations add up and duplicates are kept: for an instance a
\* callback is invoked, and yields an outcome, as many times as it is
\* registered under the keys the instance is eligible for.
C27_DuplicatesKept ==
    (last.status = "returned" /\ ~DispatchFailed) =>
        \A h \in Handlers :
            /\ \A i \in DOMAIN LastInstances :
                   Occurrences(RunFor(LastInstances[i].cls), h)
                       = Registrations(LastInstances[i], h)
            /\ Occurrences(Map(last.result.handler_results, HandlerName), h)
                   = Cardinality({k \in DOMAIN last.handlers : last.handlers[k][2] = h})

\* C27 witness: one callback registered twice on TestEvent ran twice for
\* the instance and the result has its two outcomes.
C27_Witness ==
    /\ last.status = "returned"
    /\ Len(LastInstances) = 1
    /\ pattern_handlers["TestEvent"] = <<"h_ok", "h_ok">>
    /\ RunFor("TestEvent") = <<"h_ok", "h_ok">>
    /\ Map(last.result.handler_results, HandlerName) = <<"h_ok", "h_ok">>

\* C29: with swallow_exceptions = false a trigger method that raises makes
\* the dispatch call raise to the caller, and no trigger is invoked after it
\* in that call.
C29_TriggerFailureReRaised ==
    (~swallow_exceptions /\ last.status /= "none" /\ FailedTriggers /= {}) =>
        /\ last.status = "raised"
        /\ \A k \in FailedTriggers : k = Len(last.triggers)

\* the trigger methods of the classes of the last call's instances, each
\* with its instance
LastTriggers ==
    UNION {{<<e, t>> : t \in Range(TriggerTable(e.cls))} : e \in Range(LastInstances)}

\* the trigger method of that name is declared for the activity label of
\* its instance, or for "any"
Declared(name) ==
    \E et \in LastTriggers :
        /\ QualifiedName(et[1], et[2]) = name
        /\ GetActivity(et[1]) \in et[2].acts \/ "any" \in et[2].acts

\* the call of the trigger method of that name raises
Raising(name) ==
    \E et \in LastTriggers : QualifiedName(et[1], et[2]) = name /\ et[2].raises

C36_DispatchCountsMatchPass ==
    (last.op = "dispatch_raw" /\ last.status /= "none") =>
        \A c \in Range(event_classes) :
            /\ validation_stats[c].match_attempts >= 1
            /\ Matches(c, last.payload) = "accept"
                   => validation_stats[c].successful_matches >= 1
            /\ Matches(c, last.payload) = "throws"
                   => validation_stats[c].validation_errors >= 1

(***************************************************************************)
(* Claims about the scheduling of handlers (checked under SpecSched).      *)
(***************************************************************************)
TaskIds == {<<c, i>> \in CallIds \X (1..(MaxHandlers + 1)) : i \in DOMAIN calls[c].tasks}
TasksIn(st) == {t \in TaskIds : calls[t[1]].tasks[t[2]].st = st}

\* handler invocations started and not yet resolved, on the whole bus
InFlight == Cardinality(TasksIn("running"))

\* C2: at every moment, over all the dispatch calls in progress, at most
\* max_concurrent_handlers handler invocations have started and not resolved.
C2_BoundedInFlight == InFlight <= max_concurrent_handlers

\* C2 witness: two calls in progress, every permit taken, a handler waiting.
C2_Witness ==
    /\ InFlight = max_concurrent_handlers
    /\ \A c \in CallIds : calls[c].pc = "gather"
    /\ TasksIn("pending") /= {}

\* a handler that is running and will not finish within timeout_seconds
TimingOut(c, j) ==
    /\ j \in DOMAIN calls[c].tasks
    /\ calls[c].tasks[j].st = "running"
    /\ Behaviour(calls[c].tasks[j].handler) = "slow"

\* a sibling of it that has not started and cannot (no permit is free)
HeldUp(c, i) ==
    /\ i \in DOMAIN calls[c].tasks
    /\ calls[c].tasks[i].st = "pending"
    /\ semaphore = 0

\* every task that ended was called once and ended the way its own handler
\* ends: no task is cancelled or ended on behalf of another
OwnOutcome ==
    \A t \in TaskIds :
        LET task == calls[t[1]].tasks[t[2]] IN
        /\ task.st = "returned" => (task.n = 1 /\ task.res = HandlerResult(task.handler))
        /\ task.st = "raised" => (task.n = 1 /\ Behaviour(task.handler) /= "ok")
        /\ task.st = "running" => task.n = 1
        /\ task.st = "pending" => task.n = 0

Collected(call) ==
    LET hs(entry) == entry.handlers IN Flatten(Map(call.collected, hs))

Count(seq, P(_)) == Len(SelectSeq(seq, P))

\* a text that says it is about a timeout
MentionsTimeout(text) ==
    Words(text) \cap {"timeout", "Timeout", "TimeoutError", "timed"} /= {}

\* C4: with exceptions swallowed, each handler that timed out gives one failed
\* outcome and one errors entry, which identifies the failure as a timeout.
C4_TimeoutEntry ==
    \A c \in CallIds :
        (calls[c].pc = "returned" /\ swallow_exceptions) =>
            LET slow(h) == Behaviour(h) = "slow"
                slowFailed(r) == slow(r.handler) /\ ~r.success
            IN  /\ Count(calls[c].result.handler_results, slowFailed)
                       = Count(Collected(calls[c]), slow)
                /\ Count(calls[c].result.errors, MentionsTimeout)
                       = Count(Collected(calls[c]), slow)

\* C5: with exceptions swallowed, a dispatch calls each handler of each
\* instance once and returns one outcome per handler, each handler's own;
\* the errors are as many as the handlers that raised or timed out.
C5_EveryHandlerOnce ==
    /\ \A t \in TaskIds : calls[t[1]].tasks[t[2]].n <= 1
    /\ \A t \in TasksIn("returned") : calls[t[1]].tasks[t[2]].n = 1
    /\ \A c \in CallIds :
        (calls[c].pc = "returned" /\ swallow_exceptions) =>
            LET failing(h) == Behaviour(h) /= "ok"
            IN  /\ calls[c].result.handler_results
                       = Map(Collected(calls[c]), HandlerResult)
                /\ Len(calls[c].result.errors) = Count(Collected(calls[c]), failing)

\* C5 witness: a call returned after a handler raised, another timed out.
C5_Witness ==
    \E c \in CallIds :
        /\ calls[c].pc = "returned"
        /\ swallow_exceptions
        /\ Len(calls[c].result.errors) = 2
        /\ \E i, j \in DOMAIN calls[c].result.handler_results :
            /\ Behaviour(calls[c].result.handler_results[i].handler) = "raise"
            /\ Behaviour(calls[c].result.handler_results[j].handler) = "slow"

\* C6: once a handler's exception has reached the caller of a dispatch that
\* does not swallow, no handler of that call is executing, no trigger of the
\* instance was called and no later instance was entered.
C6_AbortIsComplete ==
    \A c \in CallIds :
        calls[c].pc = "raised" =>
            /\ \A i \in DOMAIN calls[c].tasks : calls[c].tasks[i].st /= "running"
            /\ Len(calls[c].collected) = calls[c].idx
            /\ \A k \in DOMAIN calls[c].triggers :
                calls[c].triggers[k][1] /= calls[c].events[calls[c].idx].cls

\* C21: a registration made while a dispatch call is in progress does not
\* change the handlers that call runs.  The handlers here are catch-all, so
\* every instance of a call is eligible for the same ones, and the first
\* instance collects them as the call starts: every instance the call enters
\* collects the handlers the first one collected.
C21_TableFixedDuringCall ==
    \A c \in CallIds : \A k \in DOMAIN calls[c].collected :
        calls[c].collected[k].handlers = calls[c].collected[1].handlers

(***************************************************************************)
(* Claims about the counters of EventBusMetrics (C17-C19 checked under     *)
(* SpecMetrics, C20 under SpecSched).                                      *)
(***************************************************************************)
\* a dispatch call has ended on a bus that keeps metrics
Counted == enable_metrics /\ last.status /= "none"

\* C17: every completed top-level dispatch call, dispatch_raw or
\* dispatch_event, returning or raising, has added one to total_events, so
\* that after n calls total_events is n.
C17_TotalEventsPerCall ==
    Counted => metrics.total_events = last.before.total_events + 1

\* C18: a dispatch adds the number of handler outcomes it produced to
\* handler_executions, the number of failed outcomes to handler_failures
\* and the number of handlers that timed out to handler_timeouts.
C18_HandlerCounters ==
    (Counted /\ last.status = "returned") =>
        LET failed(r) == ~r.success
            timedOut(r) == Behaviour(r.handler) = "slow"
            outcomes == last.result.handler_results
        IN  /\ metrics.handler_executions = last.before.handler_executions + Len(outcomes)
            /\ metrics.handler_failures
                   = last.before.handler_failures + Len(SelectSeq(outcomes, failed))
            /\ metrics.handler_timeouts
                   = last.before.handler_timeouts + Len(SelectSeq(outcomes, timedOut))

\* C19: a dispatch_raw over k matched instances adds k to successful_events
\* only when its result is successful; when the result has errors it adds k
\* to failed_events and nothing to successful_events.
C19_SuccessOrFailure ==
    (Counted /\ Returned("dispatch_raw")) =>
        LET k == Len(last.result.matched_patterns) IN
        IF last.result.errors = << >>
        THEN /\ metrics.successful_events = last.before.successful_events + k
             /\ metrics.failed_events = last.before.failed_events
        ELSE /\ metrics.successful_events = last.before.successful_events
             /\ metrics.failed_events = last.before.failed_events + k

\* the increments dispatch call c has made so far: one to total_events on
\* entry; on return its instances to successful_events and, with errors,
\* one to failed_events; one to failed_events when it raised
Made(c) ==
    LET call == calls[c] IN
    [total_events |-> IF call.pc = "idle" THEN 0 ELSE 1,
     successful_events |-> IF call.pc = "returned" THEN Len(call.events) ELSE 0,
     failed_events |-> IF \/ call.pc = "raised"
                          \/ call.pc = "returned" /\ call.result.errors /= << >>
                       THEN 1 ELSE 0]

RECURSIVE SumMade(_, _)
SumMade(S, counter) ==
    IF S = {} THEN 0
    ELSE LET c == CHOOSE c \in S : TRUE
         IN  Made(c)[counter] + SumMade(S \ {c}, counter)

\* C20: however the dispatch_raw calls interleave, every counter is the sum
\* of the increments the calls have made; with all m calls ended,
\* total_events is m.
C20_NoLostUpdate ==
    /\ \A counter \in {"total_events", "successful_events", "failed_events"} :
           metrics[counter] = SumMade(CallIds, counter)
    /\ (\A c \in CallIds : calls[c].pc \in {"returned", "raised"})
           => metrics.total_events = Cardinality(CallIds)

\* C20 witness: two calls that overlapped have both returned, one of them
\* with errors; between them they processed three instances.
C20_Witness ==
    /\ \A c \in CallIds : calls[c].pc = "returned"
    /\ metrics.total_events = 2
    /\ metrics.successful_events = 3
    /\ metrics.failed_events >= 1

\* every handler task of the instance call c is at has ended
AllResolved(c) ==
    \A i \in DOMAIN calls[c].tasks : calls[c].tasks[i].st \in {"returned", "raised"}

\* C28: no trigger method of an instance starts before every handler of the
\* instance's handler set has resolved: a step in which a call invokes
\* triggers starts where the call awaits the handlers of that instance and
\* all of them have ended.
C28_TriggersAfterHandlers ==
    [][\A c \in CallIds :
          calls'[c].triggers /= calls[c].triggers
              => /\ calls[c].pc = "gather"
                 /\ AllResolved(c)
                 /\ \A k \in (DOMAIN calls'[c].triggers) \ (DOMAIN calls[c].triggers) :
                        calls'[c].triggers[k][1] = calls[c].events[calls[c].idx].cls]_vars

\* C28 witness: the call ran two handlers for its TestEvent instance, one of
\* which timed out, and invoked the triggers of the instance afterwards.
C28_Witness ==
    /\ calls["c1"].pc = "returned"
    /\ calls["c1"].triggers /= << >>
    /\ Len(calls["c1"].result.handler_results) = 2
    /\ \E i \in DOMAIN calls["c1"].result.handler_results :
           Behaviour(calls["c1"].result.handler_results[i].handler) = "slow"

\* C37: no permit is leaked or released twice: the free permits are
\* max_concurrent_handlers less the handler invocations in progress, so
\* they never exceed max_concurrent_handlers and all of them are free
\* whenever no invocation is in progress, whatever the outcomes of the
\* calls so far.
C37_PermitsConserved ==
    /\ semaphore + Cardinality(TasksIn("running")) = max_concurrent_handlers
    /\ semaphore <= max_concurrent_handlers
    /\ TasksIn("running") = {} => semaphore = max_concurrent_handlers

\* C37 witness: on a bus that does not swallow, both calls ended by an
\* exception reaching the caller, one handler having raised and one having
\* timed out; nothing is in progress and all permits are free.
C37_Witness ==
    /\ ~swallow_exceptions
    /\ \A c \in CallIds : calls[c].pc = "raised"
    /\ TasksIn("running") = {} /\ TasksIn("pending") = {}
    /\ \E t \in TasksIn("raised") : Behaviour(calls[t[1]].tasks[t[2]].handler) = "slow"
    /\ \E t \in TasksIn("raised") : Behaviour(calls[t[1]].tasks[t[2]].handler) = "raise"
    /\ semaphore = max_concurrent_handlers

(***************************************************************************)
(* Claims about one call after the other (checked under SpecRepeat).       *)
(***************************************************************************)
\* the kept call and the last one are dispatch_raw calls of the same payload
\* that returned, and the bus and the registry are what they were
SamePayloadTwice ==
    /\ kept.call.op = "dispatch_raw"
    /\ kept.call.status = "returned"
    /\ Returned("dispatch_raw")
    /\ last.payload = kept.call.payload
    /\ kept.bus = Bus

DispatchStep == (last' /= last /\ Dispatch(last')) \/ calls' /= calls

\* a dispatch step leaves the three handler lists and the registry's classes
\* as they are
DispatchFrame ==
    DispatchStep => UNCHANGED <<pattern_handlers, activity_handlers, any_handlers,
                                event_classes, class_objects>>

\* seq is the beginning of longer
IsPrefix(seq, longer) ==
    Len(seq) <= Len(longer) /\ SubSeq(longer, 1, Len(seq)) = seq

\* no step takes an entry out of a handler list or moves one
NothingRemoved ==
    /\ \A c \in Schemas : IsPrefix(pattern_handlers[c], pattern_handlers'[c])
    /\ \A a \in ActivityKeys : IsPrefix(activity_handlers[a], activity_handlers'[a])
    /\ IsPrefix(any_handlers, any_handlers')

\* the payload was dispatched, the caller kept the outcome, and the payload
\* was dispatched again with no registration in between
DispatchedAgain ==
    /\ kept.call.op = "dispatch_raw"
    /\ last.op = "dispatch_raw"
    /\ last.payload = kept.call.payload
    /\ kept.bus = Bus

\* the later dispatch called the handlers the earlier one called
SameHandlersLater == DispatchedAgain => last.handlers = kept.call.handlers

\* C40: a dispatch call, whether its handlers succeed, fail or time out,
\* leaves the handler lists (keys, entries, order) and the classes of the
\* registry unchanged, so a later dispatch of the same payload runs the
\* same handlers; and no step of the bus removes a handler.
C40_DispatchFrame ==
    []SameHandlersLater /\ [][DispatchFrame /\ NothingRemoved]_vars

\* C40 witness: a dispatch whose two catch-all handlers raised and timed
\* out was followed by a dispatch of the same payload, which called the
\* same two handlers.
C40_Witness ==
    /\ DispatchedAgain
    /\ any_handlers = <<"h_raise", "h_slow">>
    /\ kept.call.handlers /= << >>
    /\ last.handlers = kept.call.handlers
    /\ \E i \in DOMAIN last.handlers : last.handlers[i][2] = "h_slow"

(***************************************************************************)
(* Claims about the registry (checked under SpecRegistry).                 *)
(***************************************************************************)
\* the three tables of the registry
Registry == <<event_classes, class_objects, class_hierarchy, validation_stats>>

\* C26: registering a class whose name is already registered changes
\* nothing: the registry keeps the class object it has under that name, at
\* the same place in the order, with the same statistics.
C26_ReRegistrationNoOp ==
    [][\A cls \in Schemas, obj \in ClassObjects :
          (cls \in Range(event_classes) /\ RegisterClassObject(cls, obj))
              => UNCHANGED Registry]_vars

\* C26 witness: a registry in which replacing TestEvent would show in each
\* respect: it holds the original class, before another class in the order,
\* with counters that are not zero.
C26_Witness ==
    /\ Len(event_classes) >= 2
    /\ event_classes[1] = "TestEvent"
    /\ class_objects["TestEvent"] = Original
    /\ validation_stats["TestEvent"].match_attempts = MaxAttempts
    /\ validation_stats["TestEvent"].successful_matches > 0
    /\ validation_stats["TestEvent"].validation_errors > 0

\* the class table, the hierarchy table and the statistics table have the
\* same names
TablesAgree ==
    /\ DOMAIN class_objects = Range(event_classes)
    /\ DOMAIN class_hierarchy = DOMAIN class_objects
    /\ DOMAIN validation_stats = DOMAIN class_objects
    /\ Len(event_classes) = Cardinality(Range(event_classes))

\* a step is a call of unregister_event_class: it returns True exactly when
\* the name was registered, and the name is not registered afterwards
UnregisterReturn ==
    (last = NoCall /\ last'.op = "unregister_event_class") =>
        /\ last'.value[2] <=> last'.value[1] \in DOMAIN class_objects
        /\ last'.value[1] \notin DOMAIN class_objects'

\* C38: after any sequence of register_event_class, unregister_event_class,
\* find_matching_classes, create_events and reset_stats the three tables of
\* the registry hold the same set of names, and unregister_event_class
\* returns True exactly when the name was registered.
C38_RegistryTables == []TablesAgree /\ [][UnregisterReturn]_vars

\* C38 witness: after match passes and the creation of instances a
\* registered class was unregistered, with True returned; two classes
\* remain, with counters that are not zero.
C38_Witness ==
    /\ last.op = "unregister_event_class"
    /\ last.value[2]
    /\ Len(event_classes) = 2
    /\ \E c \in DOMAIN validation_stats :
           /\ validation_stats[c].creation_count > 0
           /\ validation_stats[c].match_attempts = MaxAttempts

\* the counters of every registered class are in order
StatsOrdered ==
    \A c \in DOMAIN validation_stats :
        /\ validation_stats[c].creation_count <= validation_stats[c].successful_matches
        /\ validation_stats[c].successful_matches <= validation_stats[c].match_attempts

\* after reset_stats the four counters of every class are zero
ZeroAfterReset ==
    last.op = "reset_stats" =>
        \A c \in DOMAIN validation_stats :
            /\ validation_stats[c].match_attempts = 0
            /\ validation_stats[c].successful_matches = 0
            /\ validation_stats[c].validation_errors = 0
            /\ validation_stats[c].creation_count = 0

\* a step is a call of reset_stats: the registered classes stay
ResetKeepsClasses ==
    (last = NoCall /\ last'.op = "reset_stats") =>
        /\ UNCHANGED <<event_classes, class_objects, class_hierarchy>>
        /\ DOMAIN validation_stats' = DOMAIN validation_stats

\* C39: for every registered class, after any sequence of
\* find_matching_classes, create_events and reset_stats,
\* creation_count <= successful_matches <= match_attempts; reset_stats sets
\* the four counters of every class to zero and leaves the registered
\* classes as they are.
C39_StatsOrdered == [](StatsOrdered /\ ZeroAfterReset) /\ [][ResetKeepsClasses]_vars

\* C39 witness: a class has been through two match passes and matched in
\* both, with an instance created in one of them, and another class has a
\* validation error counted.
C39_Witness ==
    /\ \E c \in DOMAIN validation_stats :
           /\ validation_stats[c].match_attempts = 2
           /\ validation_stats[c].successful_matches = 2
           /\ validation_stats[c].creation_count = 1
    /\ \E c \in DOMAIN validation_stats : validation_stats[c].validation_errors > 0

\* C35 as claimed: after an event class is defined, looking up its name in
\* the registry gives that very class.
C35_DefinedClassIsRegistered ==
    last.op = "register_event_class" =>
        /\ last.value[1] \in DOMAIN class_objects
        /\ class_objects[last.value[1]] = last.value[2]

\* a step is the definition of an event class: when no class of its name
\* is registered it is registered, last in the order; otherwise the registry
\* stays as it is
DefinitionRegisters ==
    (last = NoCall /\ last'.op = "register_event_class") =>
        LET cls == last'.value[1]
            obj == last'.value[2]
        IN  IF cls \in DOMAIN class_objects
            THEN UNCHANGED Registry
            ELSE /\ class_objects' = With(class_objects, cls, obj)
                 /\ event_classes' = Append(event_classes, cls)

\* the match pass of dispatch_raw goes through every registered class: those
\* that accept the payload are matched
EveryClassEvaluated ==
    Returned("dispatch_raw") =>
        \A c \in Range(event_classes) :
            Matches(c, last.payload) = "accept"
                => c \in Range(last.result.matched_patterns)

\* C35 amended: an event class is registered when it is defined unless a
\* class of the same name is registered already, in which case the registry
\* keeps the earlier class and the new one is not looked up nor evaluated;
\* the class registered under a name is evaluated in the match pass of
\* dispatch_raw.
C35_AutoRegistration ==
    /\ [](EveryClassEvaluated /\ (last.op = "register_event_class"
                                     => last.value[1] \in DOMAIN class_objects))
    /\ [][DefinitionRegisters]_vars

\* C35 witness: the class registered as TestEvent is the one defined second
\* under that name (the first was unregistered or never defined), and a
\* dispatch_raw matched it.
C35_Witness ==
    /\ Returned("dispatch_raw")
    /\ "TestEvent" \in DOMAIN class_objects
    /\ class_objects["TestEvent"] /= Original
    /\ \E i \in DOMAIN last.result.matched_patterns :
           last.result.matched_patterns[i] = "TestEvent"

(***************************************************************************)
(* Claims about SpecLive.                                                  *)
(***************************************************************************)
\* the call has gone back to its caller, with a result or with an exception
Over(c) == calls[c].pc \in {"returned", "raised"}

\* a task of the call runs a coroutine that wait_for cannot end
Stuck(c) ==
    \E i \in DOMAIN calls[c].tasks :
        /\ calls[c].tasks[i].st = "running"
        /\ Behaviour(calls[c].tasks[i].handler) = "stuck"

\* C32: every dispatch call eventually returns, even when a handler never
\* finishes on its own: a call that awaits its handlers is over at some
\* later time.
C32_DispatchReturns ==
    \A c \in CallIds : (calls[c].pc = "gather") ~> Over(c)

\* what the code does give: a call that awaits its handlers is over at some
\* later time, or a coroutine that cannot be ended holds a permit
ReturnsUnlessStuck ==
    \A c \in CallIds :
        (calls[c].pc = "gather") ~> (Over(c) \/ \E d \in CallIds : Stuck(d))

(***************************************************************************)
(* Claims about SpecRelabel.                                               *)
(***************************************************************************)
\* C31: the activity label of an instance is stable during a dispatch: the
\* label its activity handlers were selected with is the label its trigger
\* methods are selected with afterwards, whatever the handlers did with the
\* instance.
C31_LabelStable ==
    Dispatched => \A i \in DOMAIN last.labels : last.labels[i][1] = last.labels[i][2]

(***************************************************************************)
(* Claims about SpecGroup.                                                 *)
(***************************************************************************)
\* the activities held by a configured group among these names
InSomeGroup(group_names) ==
    {a \in ActivityKeys :
        \E i \in DOMAIN group_names :
            /\ group_names[i] \in DOMAIN ActivityGroups
            /\ a \in ActivityGroups[group_names[i]]}

\* a step of on_group adds the handler once at the end of the list of every
\* activity held by one of the groups named, and changes no other list
GroupRegisters ==
    (last'.op = "on_group" /\ last.op /= "on_group") =>
        LET group_names == last'.value[1]
            h == last'.value[2]
        IN  /\ \A a \in ActivityKeys :
                   activity_handlers'[a] =
                       IF a \in InSomeGroup(group_names)
                       THEN activity_handlers[a] \o <<h>>
                       ELSE activity_handlers[a]
            /\ UNCHANGED <<pattern_handlers, any_handlers>>

\* the handlers the last dispatch_event ran, by name
RanByName == Map(last.result.handler_results, HandlerName)

\* C33 as claimed: on_group registers the handler once under each activity
\* of the union of the groups named, so an instance whose activity is in
\* the union runs it once for each such registration, whatever the
\* activity.
C33_GroupRunsAnyLabel ==
    Returned("dispatch_event") =>
        \A h \in Handlers :
            Occurrences(RanByName, h)
                = Occurrences(RegisteredUnder(GetActivity(last.event)), h)

\* an instance with a non-empty label runs every handler as often as
\* on_group registered it under the label; one with the empty label runs
\* none
GroupRuns ==
    Returned("dispatch_event") =>
        \A h \in Handlers :
            Occurrences(RanByName, h)
                = IF GetActivity(last.event) = "" THEN 0
                  ELSE Occurrences(RegisteredUnder(GetActivity(last.event)), h)

\* C33 amended: on_group registers the handler exactly once under each
\* activity of the union of the named groups' sets (unconfigured names
\* contribute nothing, an empty union registers nothing), and an instance
\* whose activity is in the union and not the empty string runs it once for
\* each such registration.
C33_GroupRegistration == []GroupRuns /\ [][GroupRegisters]_vars

\* C33 witness: on_group("create", "test") has just registered a handler
\* on a bus without handlers: once under "create", which both groups hold,
\* and once under the empty string, which "test" holds.
C33_Witness ==
    /\ Returned("on_group")
    /\ last.value[1] = <<"create", "test">>
    /\ activity_handlers["create"] = <<last.value[2]>>
    /\ activity_handlers[""] = <<last.value[2]>>

(***************************************************************************)
(* Claims about SpecPlugins.                                               *)
(***************************************************************************)
\* the functions of the loaded plugins that carry one mark
MarkedOnce ==
    {f \in UNION {Range(plugin_manager.loaded_plugins[alias]) :
                      alias \in DOMAIN plugin_manager.loaded_plugins} :
        Cardinality({k \in {"pattern", "activity", "handler"} :
                        \/ k = "pattern" /\ f.webhook_pattern /= None
                        \/ k = "activity" /\ f.webhook_activity /= None
                        \/ k = "handler" /\ f.webhook_handler}) = 1}

\* C34: after the plugins are loaded and register_with_bus is called, every
\* callable marked with webhook_handler for an event class is a pattern
\* handler of that class, every one marked for an activity an activity
\* handler of that activity, and every one marked with neither a catch-all
\* handler.
C34_MarkedAreRegistered ==
    Returned("register_with_bus") =>
        \A f \in MarkedOnce :
            /\ f.webhook_pattern /= None =>
                   f.name \in Range(pattern_handlers[f.webhook_pattern])
            /\ f.webhook_activity /= None =>
                   f.name \in Range(activity_handlers[f.webhook_activity])
            /\ f.webhook_handler => f.name \in Range(any_handlers)

\* what register_with_bus does register: the functions marked with neither,
\* as catch-all handlers
UnmarkedAreCatchAll ==
    Returned("register_with_bus") =>
        \A f \in MarkedOnce : f.webhook_handler => f.name \in Range(any_handlers)

====
